---------------------------- MODULE Spec2Model ----------------------------
(***************************************************************************)
(* Model of the MP4-md video-to-markdown pipeline:                         *)
(*   - WorkflowController.process_video_link (stage sequencing),           *)
(*   - TextProcessor._call_gpt_api and                                     *)
(*     AudioTranscriber._transcribe_with_whisper (retry loops),            *)
(*   - DirectDownloader.download_file (streamed download with limits),     *)
(*     alone and as two concurrent calls on one file,                      *)
(*   - LinkClassifier.classify_link,                                       *)
(*   - VideoDownloader.download_video, its parsers and its selector,       *)
(*   - BilibiliParser.parse_link and _call_bilibili_api (retry loop).      *)
(* A behaviour exercises one of these operations, chosen by `run`; the     *)
(* variables of the other operations keep their idle values.               *)
(***************************************************************************)
EXTENDS Integers, Sequences, FiniteSets, TLC

VARIABLES
    run,          \* the operation this behaviour exercises
    wf_pc,        \* process_video_link: the stage about to be invoked
    invoked,      \* process_video_link: stage operations invoked so far, in order
    stage_res,    \* process_video_link: the result record each stage returned
    wf_ret,       \* process_video_link: the returned value
    rt_pc,        \* _call_gpt_api / _transcribe_with_whisper: position in the loop
    max_retries,  \* self.max_retries of the called object
    retry_delay,  \* self.retry_delay of the called object
    attempt,      \* the loop variable `attempt` (0-based)
    trace,        \* the requests sent and sleeps performed by the call, in order
    rt_ret,       \* the record the call returned
    dl_pc,        \* download_file: position in the current call
    fs,           \* the file at os.path.join(download_dir, filename)
    max_file_size,    \* self.max_file_size
    content_length,   \* the content-length header of the last response
    downloaded_size,  \* the running count of bytes written by the attempt
    wrote,        \* whether the current call opened the destination for writing
    dl_ret,       \* the record the current call returned
    calls,        \* number of download_file calls started for this filename
    at_call,      \* the file when the call began, and how the previous call ended
    dl_url,       \* download_file: the url argument
    dl_headers,   \* the headers of each request the current call sent, in order
    cl_text,      \* classify_link: the URL-shaped substrings of input_text, in order
    cl_ret,       \* classify_link: the returned record
    sel_pc,       \* _select_best_download_url: "call" before, "done" after
    sel_urls,     \* _select_best_download_url: the download_urls argument
    sel_scores,   \* the value of `score` at the end of each loop iteration
    sel_ret,      \* _select_best_download_url: the returned URL
    dv_pc,        \* download_video: "start", "parse", "select", "done"
    dv_url,       \* download_video: the url argument
    dv_platform,  \* download_video: the platform argument (Absent for None)
    dv_cfg,       \* whether USE_YT_DLP loaded yt_dlp, whether VIMEO_API_KEY is set
    dv_parser,    \* download_video: the key of self.parsers in use
    dv_calls,     \* download_video: the calls made, in order
    dv_parse,     \* download_video: parse_result
    dv_ret,       \* download_video: the returned record
    bl_ret,       \* BilibiliParser.parse_link: the returned record
    bl_url,       \* BilibiliParser.parse_link: the url argument
    bl_calls,     \* BilibiliParser.parse_link: the calls made, in order
    bl_video_id,  \* BilibiliParser.parse_link: video_id (Absent for None)
    cc_pc,        \* concurrent download_file calls: per call, its position
    cc_attempt,   \* per call, `attempt`
    cc_downloaded, \* per call, `downloaded_size`
    cc_wrote,     \* per call, whether it opened the file and streamed into it
    cc_linked,    \* per call, whether its open handle is the file at file_path
    cc_ret,       \* per call, the returned record
    cc_fs,        \* the file at file_path, shared by the calls
    cc_max,       \* self.max_file_size
    ea_pc,        \* extract_audio_from_video: "start", "ffmpeg_done", "done"
    ea_video,     \* whether the file at video_path exists
    ea_audio,     \* the file at audio_path
    ea_ffmpeg,    \* how subprocess.run of ffmpeg ended ("not_run" before)
    ea_mock,      \* how _create_mock_audio_file ended ("not_called" before)
    ea_ret,       \* extract_audio_from_video: the returned record
    exc           \* per function: whether an exception raised in its body was
                  \* caught by its except clause or escaped to its caller

\* Whether a call log holds a call of `name`
Has(calls_made, name) == \E i \in 1..Len(calls_made) : calls_made[i] = name

wf_vars == <<wf_pc, invoked, stage_res, wf_ret>>

rt_vars == <<rt_pc, max_retries, retry_delay, attempt, trace, rt_ret>>

dl_vars == <<dl_pc, fs, max_file_size, content_length, downloaded_size,
             wrote, dl_ret, calls, at_call, dl_url, dl_headers>>

cl_vars == <<cl_text, cl_ret>>

sel_vars == <<sel_pc, sel_urls, sel_scores, sel_ret>>

\* the variables of the operations other than the workflow, the retry loops
\* and download_file
dv_vars == <<dv_pc, dv_url, dv_platform, dv_cfg, dv_parser, dv_calls,
             dv_parse, dv_ret>>

cc_vars == <<cc_pc, cc_attempt, cc_downloaded, cc_wrote, cc_linked, cc_ret,
             cc_fs, cc_max>>

bl_vars == <<bl_ret, bl_url, bl_calls, bl_video_id>>

ea_vars == <<ea_pc, ea_video, ea_audio, ea_ffmpeg, ea_mock, ea_ret>>

ext_vars == <<cl_vars, sel_vars, dv_vars, bl_vars, cc_vars, ea_vars>>

base_vars == <<wf_vars, rt_vars, dl_vars>>

vars == <<run, wf_pc, invoked, stage_res, wf_ret,
          rt_pc, max_retries, retry_delay, attempt, trace, rt_ret,
          dl_pc, fs, max_file_size, content_length, downloaded_size,
          wrote, dl_ret, calls, at_call, dl_url, dl_headers, cl_text, cl_ret,
          sel_pc, sel_urls, sel_scores, sel_ret,
          dv_pc, dv_url, dv_platform, dv_cfg, dv_parser, dv_calls,
          dv_parse, dv_ret, bl_ret, bl_url, bl_calls, bl_video_id,
          cc_pc, cc_attempt, cc_downloaded, cc_wrote, cc_linked, cc_ret,
          cc_fs, cc_max, ea_pc, ea_video, ea_audio, ea_ffmpeg, ea_mock,
          ea_ret, exc>>

\* Bounds of the model
MaxRetries == 3

MaxRetryDelay == 2

\* largest max_file_size, in bytes
MaxFileSize == 2

\* largest chunk iter_content yields (chunk_size=8192 in the code), in bytes
ChunkSize == 2

\* download_file calls made one after the other with the same filename
MaxCalls == 2

\* URL-shaped substrings in one input text
MaxLinks == 2

\* entries of a download_urls list
MaxCandidates == 2

Absent == "None"

(***************************************************************************)
(* Result records.  Python dicts of differing key sets are modelled by one *)
(* record shape; a key the dict does not carry has the value Absent.       *)
(* `origin` names the operation that built the record (each builds a dict  *)
(* with its own context key: links, url, video_path, audio_path, ...).     *)
(***************************************************************************)
Result(origin, success, error, payload) ==
    [origin |-> origin, success |-> success, error |-> error,
     payload |-> payload, transcript |-> Absent, formatted_text |-> Absent,
     text_processing_success |-> FALSE, text_processing_error |-> Absent,
     result_file |-> Absent]

NoResult == Result("none", FALSE, Absent, Absent)

(***************************************************************************)
(* LinkClassifier.  An input text is modelled by the sequence of its       *)
(* URL-shaped substrings (_extract_links, in order of appearance).  A URL  *)
(* is a record of what the regular expressions of the code yield on it:    *)
(* for every pattern group of link_patterns the first capture group of the *)
(* first matching pattern (Absent when no pattern of the group matches),   *)
(* GenericParser's _is_direct_link and _identify_platform, the text after   *)
(* the last "/" of the URL cut at its first "?" (segment), and the parser   *)
(* platform names that occur in the lower-cased URL (names).               *)
(***************************************************************************)
Url(u, bili, yt, vim, dy, ks, dvid, daud, direct, segment, platform, names) ==
    [url |-> u, bilibili |-> bili, youtube |-> yt, vimeo |-> vim,
     douyin |-> dy, kuaishou |-> ks, direct_video |-> dvid,
     direct_audio |-> daud, is_direct_link |-> direct,
     segment |-> segment, platform |-> platform, names |-> names]

Urls ==
    { Url("https://www.bilibili.com/video/BV1xx411c7mD",
          "BV1xx411c7mD", Absent, Absent, Absent, Absent, Absent, Absent,
          FALSE, "BV1xx411c7mD", "bilibili", {"bilibili"}),
      Url("https://b23.tv/abc123",
          "abc123", Absent, Absent, Absent, Absent, Absent, Absent,
          FALSE, "abc123", "bilibili", {}),
      Url("https://www.youtube.com/watch?v=abc",
          Absent, "abc", Absent, Absent, Absent, Absent, Absent,
          FALSE, "watch", "youtube", {"youtube"}),
      Url("https://youtu.be/abc",
          Absent, "abc", Absent, Absent, Absent, Absent, Absent,
          FALSE, "abc", "youtube", {}),
      Url("https://vimeo.com/12345",
          Absent, Absent, "12345", Absent, Absent, Absent, Absent,
          FALSE, "12345", "vimeo", {"vimeo"}),
      Url("https://www.douyin.com/video/abc",
          Absent, Absent, Absent, "abc", Absent, Absent, Absent,
          FALSE, "abc", "douyin", {}),
      Url("https://v.kuaishou.com/abc",
          Absent, Absent, Absent, Absent, "abc", Absent, Absent,
          FALSE, "abc", "kuaishou", {}),
      Url("https://example.com/clip.mp4",
          Absent, Absent, Absent, Absent, Absent, "mp4", Absent,
          TRUE, "clip.mp4", "unknown", {}),
      Url("https://example.com/song.mp3",
          Absent, Absent, Absent, Absent, Absent, Absent, "mp3",
          TRUE, "song.mp3", "unknown", {}),
      Url("https://example.com/page",
          Absent, Absent, Absent, Absent, Absent, Absent, Absent,
          FALSE, "page", "unknown", {}),
      Url("https://www.bilibili.com/video/BV1.mp4",
          "BV1", Absent, Absent, Absent, Absent, "mp4", Absent,
          TRUE, "BV1.mp4", "bilibili", {"bilibili"}),
      Url("https://example.com/?file=a.mp4",
          Absent, Absent, Absent, Absent, Absent, "mp4", Absent,
          TRUE, "", "unknown", {}),
      Url("https://www.bilibili.com/read/cv1",
          Absent, Absent, Absent, Absent, Absent, Absent, Absent,
          FALSE, "cv1", "bilibili", {"bilibili"}),
      Url("https://www.youtube.com/watch?v=abc&f=x.mp3",
          Absent, "abc", Absent, Absent, Absent, Absent, "mp3",
          TRUE, "watch", "youtube", {"youtube"}) }

RECURSIVE SeqsUpTo(_, _)
SeqsUpTo(S, n) ==
    IF n = 0 THEN { <<>> }
    ELSE LET shorter == SeqsUpTo(S, n - 1)
         IN  shorter \cup { Append(q, x) : q \in shorter, x \in S }

Texts == SeqsUpTo(Urls, MaxLinks)

Min(S) == CHOOSE x \in S : \A y \in S : x <= y

\* The keys of self.link_patterns, in the order the dict lists them
GroupOrderDirectFirst ==
    <<"direct_video", "direct_audio", "bilibili", "youtube", "vimeo",
      "douyin", "kuaishou">>

GroupOrder ==
    <<"bilibili", "youtube", "vimeo", "douyin", "kuaishou",
      "direct_video", "direct_audio">>

\* re.match of the patterns of `group` on `u`: the captured id, or Absent
GroupMatch(u, group) ==
    CASE group = "bilibili" -> u.bilibili
      [] group = "youtube" -> u.youtube
      [] group = "vimeo" -> u.vimeo
      [] group = "douyin" -> u.douyin
      [] group = "kuaishou" -> u.kuaishou
      [] group = "direct_video" -> u.direct_video
      [] group = "direct_audio" -> u.direct_audio

\* _identify_link_type: the first group, in dict order, with a matching pattern
IdentifyLinkType(u) ==
    LET hits == { g \in 1..Len(GroupOrder) : GroupMatch(u, GroupOrder[g]) # Absent }
    IN  IF hits = {} THEN [type |-> "unknown", platform_id |-> Absent]
        ELSE [type |-> GroupOrder[Min(hits)],
              platform_id |-> GroupMatch(u, GroupOrder[Min(hits)])]

\* _get_parser_name
GetParserName(link_type) ==
    CASE link_type = "bilibili" -> "bilibili_parser"
      [] link_type = "youtube" -> "youtube_parser"
      [] link_type = "vimeo" -> "vimeo_parser"
      [] link_type = "douyin" -> "douyin_parser"
      [] link_type = "kuaishou" -> "kuaishou_parser"
      [] link_type = "direct_video" -> "direct_downloader"
      [] link_type = "direct_audio" -> "direct_downloader"
      [] link_type = "unknown" -> "generic_parser"
      [] OTHER -> "generic_parser"

Link(u) ==
    [url |-> u.url, type |-> IdentifyLinkType(u).type,
     platform_id |-> IdentifyLinkType(u).platform_id,
     parser |-> GetParserName(IdentifyLinkType(u).type)]

NoLink == [url |-> Absent, type |-> Absent, platform_id |-> Absent, parser |-> Absent]

\* priority_order of _select_primary_link
PriorityOrderPlatformFirst ==
    <<"bilibili", "youtube", "vimeo", "douyin", "kuaishou",
      "direct_video", "direct_audio", "unknown">>

PriorityOrder ==
    <<"direct_video", "direct_audio", "bilibili", "youtube", "vimeo",
      "douyin", "kuaishou", "unknown">>

\* _select_primary_link: for each priority type in turn, the first link of it
SelectPrimaryLink(classified_links) ==
    IF classified_links = <<>> THEN NoLink
    ELSE LET present == { p \in 1..Len(PriorityOrder) :
                            \E i \in 1..Len(classified_links) :
                                classified_links[i].type = PriorityOrder[p] }
         IN  IF present = {} THEN classified_links[1]
             ELSE classified_links[
                    Min({ i \in 1..Len(classified_links) :
                            classified_links[i].type = PriorityOrder[Min(present)] })]

Classification(success, error, links, primary) ==
    [success |-> success, error |-> error, links |-> links,
     primary_link |-> primary]

NoClassification == Classification(FALSE, Absent, <<>>, NoLink)

\* classify_link (the body of the try block)
ClassifyLinkNoEmptyCheck(text) ==
    LET classified_links == [i \in 1..Len(text) |-> Link(text[i])]
    IN  Classification(TRUE, Absent, classified_links,
                       SelectPrimaryLink(classified_links))

ClassifyLink(text) ==
    IF text = <<>>
    THEN Classification(FALSE, "no link found", <<>>, NoLink)
    ELSE LET classified_links == [i \in 1..Len(text) |-> Link(text[i])]
         IN  Classification(TRUE, Absent, classified_links,
                            SelectPrimaryLink(classified_links))

\* The classification as process_video_link reads it: success and primary_link
ClassifyStageResult(text) ==
    LET r == ClassifyLink(text)
    IN  Result("classify_link", r.success, r.error, r.primary_link.type)

\* classify_link as a stage: what its try block returns over all input texts
ClassifyResults ==
    { ClassifyStageResult(text) : text \in Texts }

\* download_video: a failure record of the resolver, of download_file or its own.
DownloadResults ==
    { Result("download_video", FALSE, e, Absent) :
        e \in {"unsupported platform", "no download url", "download failed"} }
    \cup { Result("download_video", TRUE, Absent, "video.mp4") }

\* extract_audio_from_video
ExtractResults ==
    { Result("extract_audio_from_video", FALSE, e, Absent) :
        e \in {"video file missing", "invalid audio file"} }
    \cup { Result("extract_audio_from_video", TRUE, Absent, "video_audio.wav") }

\* transcribe_audio: a success built from segments may carry an empty transcript.
Transcripts == {"", "raw transcript"}

TranscribeResults ==
    { Result("transcribe_audio", FALSE, e, Absent) :
        e \in {"audio file missing", "whisper failed"} }
    \cup { [Result("transcribe_audio", TRUE, Absent, Absent) EXCEPT !.transcript = t] :
             t \in Transcripts }

\* process_text(transcript, "format"): success carries non-empty formatted_text.
ProcessTextResults ==
    { Result("process_text", FALSE, e, Absent) :
        e \in {"openai config incomplete", "gpt failed"} }
    \cup { [Result("process_text", TRUE, Absent, Absent)
               EXCEPT !.formatted_text = "# formatted"] }

\* The functions whose whole body is the try block of `except Exception`
Functions ==
    {"classify_link", "download_video", "extract_audio_from_video",
     "transcribe_audio", "process_text", "process_video_link"}

ExceptClauseOnlyInWorkflow(fn) == fn = "process_video_link"

ExceptClause(fn) == fn \in Functions

\* The record an except clause returns: success False and error str(e)
ExceptRecord(fn) == Result(fn, FALSE, "exception", Absent)

NoException == [fn \in Functions |-> "none"]

StageOrder ==
    <<"classify_link", "download_video", "extract_audio_from_video",
      "transcribe_audio", "process_text", "_save_transcription_result">>

\* `if not <stage>_result.get("success"): return <stage>_result`
StageFailed(result) == ~result.success

\* The stage invoked after `stage` returned `result`; "done" when the run returns.
NextStageRetry(stage, result) ==
    IF ~result.success THEN stage
    ELSE CASE stage = "classify_link" -> "download_video"
           [] stage = "download_video" -> "extract_audio_from_video"
           [] stage = "extract_audio_from_video" -> "transcribe_audio"
           [] stage = "transcribe_audio" -> "process_text"

NextStageContinue(stage, result) ==
    CASE stage = "classify_link" -> "download_video"
      [] stage = "download_video" -> "extract_audio_from_video"
      [] stage = "extract_audio_from_video" -> "transcribe_audio"
      [] stage = "transcribe_audio" -> "process_text"

NextStage(stage, result) ==
    IF StageFailed(result) THEN "done"
    ELSE CASE stage = "classify_link" ->
                IF result.payload = Absent THEN "done" ELSE "download_video"
           [] stage = "download_video" -> "extract_audio_from_video"
           [] stage = "extract_audio_from_video" -> "transcribe_audio"
           [] stage = "transcribe_audio" -> "process_text"

\* The value returned when the run ends after `stage` returned `result`.
EarlyReturn(stage, result) ==
    IF StageFailed(result) THEN result
    ELSE Result("process_video_link", FALSE, "no primary link", Absent)

\* formatted_text of the final result (workflow_controller.py 193-198)
FormattedTextNoFallback(text_result, transcript) == text_result.formatted_text

FormattedText(text_result, transcript) ==
    IF text_result.success THEN text_result.formatted_text ELSE transcript

\* The result dict built at workflow_controller.py 201-220
FinalResultFollowsText(transcription_result, text_result) ==
    [Result("process_video_link", text_result.success, Absent, Absent) EXCEPT
        !.transcript = transcription_result.transcript,
        !.formatted_text = text_result.formatted_text,
        !.text_processing_success = text_result.success,
        !.text_processing_error =
            IF ~text_result.success THEN text_result.error ELSE Absent]

FinalResult(transcription_result, text_result) ==
    [Result("process_video_link", TRUE, Absent, Absent) EXCEPT
        !.transcript = transcription_result.transcript,
        !.formatted_text =
            FormattedText(text_result, transcription_result.transcript),
        !.text_processing_success = text_result.success,
        !.text_processing_error =
            IF ~text_result.success THEN text_result.error ELSE Absent]

\* _save_transcription_result: writes the files and returns the same result with
\* result_file set; an exception while saving is caught and the result returned.
SaveOutcomes == {"saved", "exception"}

SaveTranscriptionResult(result, outcome) ==
    IF outcome = "saved"
    THEN [result EXCEPT !.result_file = "transcription_result.json"]
    ELSE result

Stages == { StageOrder[i] : i \in 1..Len(StageOrder) }

WfIdle ==
    /\ wf_pc = "idle"
    /\ invoked = <<>>
    /\ stage_res = [s \in Stages |-> NoResult]
    /\ wf_ret = NoResult

WfInit ==
    /\ wf_pc = "classify_link"
    /\ invoked = <<>>
    /\ stage_res = [s \in Stages |-> NoResult]
    /\ wf_ret = NoResult

\* An exception leaves `stage`: the try block of process_video_link ends and
\* its except clause returns the failure record.
PropagateToWorkflow(stage) ==
    /\ invoked' = Append(invoked, stage)
    /\ stage_res' = stage_res
    /\ wf_pc' = "done"
    /\ exc' = [exc EXCEPT
                 ![stage] = "escaped",
                 !["process_video_link"] =
                     IF ExceptClause("process_video_link")
                     THEN "caught" ELSE "escaped"]
    /\ wf_ret' = IF ExceptClause("process_video_link")
                 THEN ExceptRecord("process_video_link") ELSE wf_ret

\* What a stage hands to its caller: a record of its try block, or, when the
\* block raises, the record of its except clause.
Returned(stage, fault, r) == IF fault THEN ExceptRecord(stage) ELSE r

\* A stage whose failure ends the run: invoke it, then branch on its result.
RunStage(stage, results) ==
    /\ wf_pc = stage
    /\ \E fault \in BOOLEAN, r0 \in results :
        IF fault /\ ~ExceptClause(stage)
        THEN PropagateToWorkflow(stage)
        ELSE LET r == Returned(stage, fault, r0)
             IN  /\ invoked' = Append(invoked, stage)
                 /\ stage_res' = [stage_res EXCEPT ![stage] = r]
                 /\ wf_pc' = NextStage(stage, r)
                 /\ wf_ret' = IF wf_pc' = "done"
                              THEN EarlyReturn(stage, r) ELSE wf_ret
                 /\ exc' = IF fault THEN [exc EXCEPT ![stage] = "caught"] ELSE exc
    /\ UNCHANGED <<run, rt_vars, dl_vars, ext_vars>>

Classify ==
    /\ run = "workflow"
    /\ RunStage("classify_link", ClassifyResults)

DownloadVideo ==
    /\ run = "workflow"
    /\ RunStage("download_video", DownloadResults)

ExtractAudio ==
    /\ run = "workflow"
    /\ RunStage("extract_audio_from_video", ExtractResults)

Transcribe ==
    /\ run = "workflow"
    /\ RunStage("transcribe_audio", TranscribeResults)

\* Step 5: process_text never ends the run; the result dict is built from it.
ProcessText ==
    /\ run = "workflow"
    /\ wf_pc = "process_text"
    /\ \E fault \in BOOLEAN, r0 \in ProcessTextResults :
        IF fault /\ ~ExceptClause("process_text")
        THEN PropagateToWorkflow("process_text")
        ELSE LET r == Returned("process_text", fault, r0)
             IN  /\ invoked' = Append(invoked, "process_text")
                 /\ stage_res' = [stage_res EXCEPT !["process_text"] = r]
                 /\ wf_ret' = FinalResult(stage_res["transcribe_audio"], r)
                 /\ wf_pc' = "_save_transcription_result"
                 /\ exc' = IF fault THEN [exc EXCEPT !["process_text"] = "caught"]
                           ELSE exc
    /\ UNCHANGED <<run, rt_vars, dl_vars, ext_vars>>

Save ==
    /\ run = "workflow"
    /\ wf_pc = "_save_transcription_result"
    /\ \E o \in SaveOutcomes :
        /\ invoked' = Append(invoked, "_save_transcription_result")
        /\ wf_ret' = SaveTranscriptionResult(wf_ret, o)
        /\ stage_res' = [stage_res EXCEPT !["_save_transcription_result"] = wf_ret']
    /\ wf_pc' = "done"
    /\ UNCHANGED exc
    /\ UNCHANGED <<run, rt_vars, dl_vars, ext_vars>>

(***************************************************************************)
(* The retry loops of _call_gpt_api and _transcribe_with_whisper.          *)
(***************************************************************************)
RECURSIVE Pow(_, _)
Pow(b, e) == IF e = 0 THEN 1 ELSE b * Pow(b, e - 1)

\* What one attempt can end in: the status code of the response (200 with or
\* without content), requests.exceptions.Timeout, another RequestException
\* (connection error), or any other exception.
Outcomes ==
    {"ok", "empty", "401", "429", "502", "503", "400", "404", "500",
     "timeout", "request_exception", "exception"}

\* A 200 of the transcription service whose body has a 'segments' key and no
\* segment with text: handled by the segments branch of _transcribe_with_whisper
WhisperOutcomes == Outcomes \cup {"empty_segments"}

\* The outcomes on which the loop returns a success record, and the content or
\* transcript that record carries
ReturnsSuccess(o) == o \in {"ok", "empty_segments"}

Content(o) == IF o = "ok" THEN "content" ELSE ""

\* Configuration defaults of TextProcessor.__init__
gpt_502_retry_multiplier == 3
gpt_503_retry_multiplier == 2
gpt_502_base_delay == 5
gpt_503_base_delay == 10

\* The events of one call: request number k (1-based) with how it ended, and
\* time.sleep(d).
Request(k, o) == [ev |-> "request", n |-> k, outcome |-> o]
Sleep(d) == [ev |-> "sleep", n |-> d, outcome |-> Absent]

\* The proviso under which a call makes progress: the network request of an
\* attempt (requests.get / requests.post with a timeout) and the time.sleep
\* after it return
RequestHangs == FALSE

RequestReturns == TRUE

\* `for attempt in range(self.max_retries)`
InRange(a, max) == a < max

\* `if attempt < self.max_retries - 1:` guarding every sleep-and-continue
AttemptsRemainOffByOne(a, max) == a < max

AttemptsRemain(a, max) == a < max - 1

\* The branches of _call_gpt_api that end in `continue` when attempts remain
GptRetryableAll(outcome) == outcome # "ok"

GptRetryable(outcome) ==
    outcome \in {"empty", "429", "502", "503", "404", "500",
                 "timeout", "request_exception"}

\* The argument of time.sleep in the branch of `outcome` (text_processor.py)
GptDelaySharedConstants(outcome, a, delay) ==
    CASE outcome = "429" -> delay * Pow(2, a)
      [] outcome \in {"502", "503"} ->
            delay * Pow(gpt_503_retry_multiplier, a) + gpt_503_base_delay
      [] OTHER -> delay

GptDelay(outcome, a, delay) ==
    CASE outcome = "429" -> delay * Pow(2, a)
      [] outcome = "502" ->
            delay * Pow(gpt_502_retry_multiplier, a) + gpt_502_base_delay
      [] outcome = "503" ->
            delay * Pow(gpt_503_retry_multiplier, a) + gpt_503_base_delay
      [] OTHER -> delay

\* The branches of _transcribe_with_whisper that end in `continue`: 502 and
\* 503 have no branch of their own and fall to the final else.
WhisperRetryableNoTimeout(outcome) ==
    outcome \in {"empty", "429", "502", "503", "404", "500", "request_exception"}

WhisperRetryable(outcome) ==
    outcome \in {"empty", "429", "502", "503", "404", "500",
                 "timeout", "request_exception"}

\* The argument of time.sleep in the branch of `outcome` (audio_transcriber.py)
WhisperDelay(outcome, a, delay) ==
    CASE outcome = "429" -> delay * Pow(2, a)
      [] OTHER -> delay

Retryable(outcome) ==
    IF run = "gpt" THEN GptRetryable(outcome) ELSE WhisperRetryable(outcome)

DelayFlat(outcome, a, delay) == delay

Delay(outcome, a, delay) ==
    IF run = "gpt" THEN GptDelay(outcome, a, delay)
    ELSE WhisperDelay(outcome, a, delay)

Callee == IF run = "gpt" THEN "_call_gpt_api" ELSE "_transcribe_with_whisper"

RtIdle ==
    /\ rt_pc = "idle"
    /\ max_retries = 0
    /\ retry_delay = 0
    /\ attempt = 0
    /\ trace = <<>>
    /\ rt_ret = NoResult

\* max_retries and retry_delay are int(os.getenv(...)) of the configuration.
RtInit ==
    /\ rt_pc = "loop"
    /\ max_retries \in 0..MaxRetries
    /\ retry_delay \in 0..MaxRetryDelay
    /\ attempt = 0
    /\ trace = <<>>
    /\ rt_ret = NoResult

\* One iteration of the loop body: the request is sent, its outcome is
\* classified, and the iteration ends in return or in sleep-and-continue.
Attempt ==
    /\ run \in {"gpt", "whisper"}
    /\ rt_pc = "loop"
    /\ InRange(attempt, max_retries)
    /\ RequestReturns
    /\ \E o \in IF run = "whisper" THEN WhisperOutcomes ELSE Outcomes :
        IF ReturnsSuccess(o)
        THEN /\ trace' = Append(trace, Request(attempt + 1, o))
             /\ rt_ret' = Result(Callee, TRUE, Absent, Content(o))
             /\ rt_pc' = "done"
             /\ UNCHANGED attempt
        ELSE IF Retryable(o) /\ AttemptsRemain(attempt, max_retries)
        THEN /\ trace' = trace \o <<Request(attempt + 1, o),
                                    Sleep(Delay(o, attempt, retry_delay))>>
             /\ attempt' = attempt + 1
             /\ UNCHANGED <<rt_pc, rt_ret>>
        ELSE /\ trace' = Append(trace, Request(attempt + 1, o))
             /\ rt_ret' = Result(Callee, FALSE, o, Absent)
             /\ rt_pc' = "done"
             /\ UNCHANGED attempt
    /\ UNCHANGED <<run, max_retries, retry_delay, wf_vars, dl_vars, ext_vars, exc>>

\* The return after the loop: "...已重试{max_retries}次"
Exhausted ==
    /\ run \in {"gpt", "whisper"}
    /\ rt_pc = "loop"
    /\ ~InRange(attempt, max_retries)
    /\ rt_ret' = Result(Callee, FALSE, "retries exhausted", Absent)
    /\ rt_pc' = "done"
    /\ UNCHANGED <<run, max_retries, retry_delay, attempt, trace, wf_vars, dl_vars, ext_vars, exc>>

(***************************************************************************)
(* DirectDownloader.download_file                                          *)
(***************************************************************************)
\* `max_retries = 3` and `retry_delay = 2` at the head of download_file
dl_max_retries == 3
dl_retry_delay == 2

NoFile == [exists |-> FALSE, size |-> 0]
File(n) == [exists |-> TRUE, size |-> n]

NoLength == -1

DlResult(success, error, size) ==
    [success |-> success, error |-> error,
     file_path |-> IF success THEN "download_dir/filename" ELSE Absent,
     size |-> size]

NoDlResult == DlResult(FALSE, Absent, -1)

\* What requests.get + raise_for_status can end in: an HTTPError of a status,
\* a Timeout, a ConnectionError, another exception, or a streamed response.
RequestOutcomes ==
    {"ok", "403", "404", "429", "500", "502", "503",
     "timeout", "connection_error", "exception"}

\* What iter_content can raise while the body is written
StreamErrors == {"timeout", "connection_error", "exception"}

\* `if os.path.exists(file_path):` at the head of every attempt
FileExistsNever(f) == FALSE

FileExists(f) == f.exists

\* `if content_length: ... if file_size > self.max_file_size:`
DeclaredTooLargeNever(cl, max) == FALSE

DeclaredTooLarge(cl, max) == cl # NoLength /\ cl > max

\* `if downloaded_size > self.max_file_size:` after every chunk written
OverLimitNever(n, max) == FALSE

OverLimit(n, max) == n > max

\* `if actual_size == 0:` once the body has been streamed
EmptySizeNever(n) == FALSE

EmptySize(n) == n = 0

\* The except clauses of download_file that sleep and continue when attempts remain
DlRetryableNotFound(error) ==
    error \in {"403", "404", "429", "timeout", "connection_error"}

DlRetryableServerErrors(error) ==
    error \in {"403", "429", "500", "502", "503", "timeout", "connection_error"}

DlRetryable(error) == error \in {"403", "429", "timeout", "connection_error"}

\* The argument of time.sleep in the except clause of `error`
DlDelayFlat(error) == dl_retry_delay

DlDelay(error) == IF error = "429" THEN dl_retry_delay * 2 ELSE dl_retry_delay

\* A url with the outcome of the substring tests the header builders make
DlUrl(u, bilivideo, cdn) == [url |-> u, bilivideo |-> bilivideo, cdn |-> cdn]

DlUrls ==
    { DlUrl("https://upos.bilivideo.com/v.mp4", TRUE, FALSE),
      DlUrl("https://a.cdn.com/v.mp4", FALSE, TRUE),
      DlUrl("https://example.com/clip.mp4", FALSE, FALSE) }

NoDlUrl == DlUrl(Absent, FALSE, FALSE)

\* The headers the model tells apart (the others are the same in every request)
Headers(user_agent, referer, origin) ==
    [user_agent |-> user_agent, referer |-> referer, origin |-> origin]

\* _get_download_headers
GetDownloadHeaders(u) ==
    Headers("Windows NT 10.0 Chrome/91",
            IF u.bilivideo THEN "https://www.bilibili.com/"
            ELSE IF u.cdn THEN "https://www.google.com/" ELSE Absent,
            IF u.bilivideo THEN "https://www.bilibili.com" ELSE Absent)

\* _get_retry_headers, `attempt` 0-based as in the loop
GetRetryHeadersUnchanged(u, a) == GetDownloadHeaders(u)

GetRetryHeaders(u, a) ==
    LET base == GetDownloadHeaders(u)
        user_agent == CASE a = 1 -> "Macintosh Chrome/91"
                        [] a = 2 -> "iPhone Safari/604.1"
                        [] OTHER -> base.user_agent
    IN  IF u.bilivideo /\ a = 1
        THEN Headers(user_agent, "https://www.bilibili.com/video/", base.origin)
        ELSE IF u.bilivideo /\ a = 2
        THEN Headers(user_agent, "https://www.bilibili.com/", Absent)
        ELSE Headers(user_agent, base.referer, base.origin)

\* `headers = self._get_download_headers(url)` and
\* `if attempt > 0: headers = self._get_retry_headers(url, attempt)`
RequestHeaders(u, a) ==
    IF a > 0 THEN GetRetryHeaders(u, a) ELSE GetDownloadHeaders(u)

DlIdle ==
    /\ dl_pc = "idle"
    /\ dl_url = NoDlUrl
    /\ dl_headers = <<>>
    /\ fs = NoFile
    /\ max_file_size = 0
    /\ content_length = NoLength
    /\ downloaded_size = 0
    /\ wrote = FALSE
    /\ dl_ret = NoDlResult
    /\ calls = 0
    /\ at_call = [fs |-> NoFile, prev |-> NoDlResult, prev_wrote |-> FALSE]

\* When the first call begins the destination holds no file or a non-empty
\* file; an empty or partial file only arises from a call of the model.
DlInit ==
    /\ dl_pc = "loop"
    /\ dl_url \in DlUrls
    /\ dl_headers = <<>>
    /\ fs \in {NoFile} \cup { File(n) : n \in 1..MaxFileSize }
    /\ max_file_size \in 0..MaxFileSize
    /\ content_length = NoLength
    /\ downloaded_size = 0
    /\ wrote = FALSE
    /\ dl_ret = NoDlResult
    /\ calls = 1
    /\ at_call = [fs |-> fs, prev |-> NoDlResult, prev_wrote |-> FALSE]

\* An exception `error` caught by the except clauses (lines 148-201): sleep and
\* continue, or return the failure.  The file is left as the attempt left it.
DlHandle(error, events) ==
    IF DlRetryable(error) /\ AttemptsRemain(attempt, dl_max_retries)
    THEN /\ trace' = trace \o events \o <<Sleep(DlDelay(error))>>
         /\ attempt' = attempt + 1
         /\ dl_pc' = "loop"
         /\ UNCHANGED dl_ret
    ELSE /\ trace' = trace \o events
         /\ dl_ret' = DlResult(FALSE, error, -1)
         /\ dl_pc' = "done"
         /\ UNCHANGED attempt

\* The head of one loop iteration, up to the point where the body is streamed:
\* the existing-file check, the request, the content-length check, open().
DlAttempt ==
    /\ run = "download"
    /\ dl_pc = "loop"
    /\ IF ~InRange(attempt, dl_max_retries)
       THEN /\ dl_ret' = DlResult(FALSE, "retries exhausted", -1)
            /\ dl_pc' = "done"
            /\ UNCHANGED <<fs, content_length, downloaded_size, wrote,
                           attempt, trace, dl_headers>>
       ELSE IF FileExists(fs)
       THEN /\ dl_ret' = DlResult(TRUE, Absent, fs.size)
            /\ dl_pc' = "done"
            /\ UNCHANGED <<fs, content_length, downloaded_size, wrote,
                           attempt, trace, dl_headers>>
       ELSE /\ RequestReturns
            /\ dl_headers' = Append(dl_headers, RequestHeaders(dl_url, attempt))
            /\ \E o \in RequestOutcomes :
                 IF o # "ok"
                 THEN /\ DlHandle(o, <<Request(attempt + 1, o)>>)
                      /\ UNCHANGED <<fs, content_length, downloaded_size, wrote>>
                 ELSE \E cl \in {NoLength} \cup 0..(MaxFileSize + 1) :
                      /\ content_length' = cl
                      /\ trace' = Append(trace, Request(attempt + 1, o))
                      /\ IF DeclaredTooLarge(cl, max_file_size)
                         THEN /\ dl_ret' = DlResult(FALSE, "declared size over limit", -1)
                              /\ dl_pc' = "done"
                              /\ UNCHANGED <<fs, downloaded_size, wrote, attempt>>
                         ELSE /\ fs' = File(0)
                              /\ wrote' = TRUE
                              /\ downloaded_size' = 0
                              /\ dl_pc' = "stream"
                              /\ UNCHANGED <<dl_ret, attempt>>
    /\ UNCHANGED <<run, max_file_size, calls, at_call, dl_url>>
    /\ UNCHANGED <<wf_vars, rt_pc, max_retries, retry_delay, rt_ret, ext_vars, exc>>

\* One non-empty chunk is written; the running count is checked.
DlChunk ==
    /\ run = "download"
    /\ dl_pc = "stream"
    /\ \E n \in 1..ChunkSize :
        /\ downloaded_size' = downloaded_size + n
        /\ IF OverLimit(downloaded_size', max_file_size)
           THEN /\ fs' = NoFile
                /\ dl_ret' = DlResult(FALSE, "downloaded size over limit", -1)
                /\ dl_pc' = "done"
           ELSE /\ fs' = File(fs.size + n)
                /\ UNCHANGED <<dl_ret, dl_pc>>
    /\ UNCHANGED <<run, max_file_size, content_length, wrote, calls, at_call,
                   attempt, trace, dl_url, dl_headers>>
    /\ UNCHANGED <<wf_vars, rt_pc, max_retries, retry_delay, rt_ret, ext_vars, exc>>

\* iter_content raises while the body is streamed: the with block closes the
\* file and the except clauses run.
DlStreamError ==
    /\ run = "download"
    /\ dl_pc = "stream"
    /\ \E e \in StreamErrors : DlHandle(e, <<>>)
    /\ UNCHANGED <<run, fs, max_file_size, content_length, downloaded_size,
                   wrote, calls, at_call, dl_url, dl_headers>>
    /\ UNCHANGED <<wf_vars, rt_pc, max_retries, retry_delay, rt_ret, ext_vars, exc>>

\* The body ends: the downloaded file is verified (lines 121-146).
DlStreamEnd ==
    /\ run = "download"
    /\ dl_pc = "stream"
    /\ IF fs.exists
       THEN IF EmptySize(fs.size)
            THEN /\ fs' = NoFile
                 /\ dl_ret' = DlResult(FALSE, "downloaded file is empty", -1)
            ELSE /\ dl_ret' = DlResult(TRUE, Absent, fs.size)
                 /\ UNCHANGED fs
       ELSE /\ dl_ret' = DlResult(FALSE, "file missing after download", -1)
            /\ UNCHANGED fs
    /\ dl_pc' = "done"
    /\ UNCHANGED <<run, max_file_size, content_length, downloaded_size,
                   wrote, calls, at_call, attempt, trace, dl_url, dl_headers>>
    /\ UNCHANGED <<wf_vars, rt_pc, max_retries, retry_delay, rt_ret, ext_vars, exc>>

\* download_file is called again with the same filename.
DlCall ==
    /\ run = "download"
    /\ dl_pc = "done"
    /\ calls < MaxCalls
    /\ calls' = calls + 1
    /\ at_call' = [fs |-> fs, prev |-> dl_ret, prev_wrote |-> wrote]
    /\ dl_pc' = "loop"
    /\ attempt' = 0
    /\ trace' = <<>>
    /\ content_length' = NoLength
    /\ downloaded_size' = 0
    /\ wrote' = FALSE
    /\ dl_ret' = NoDlResult
    /\ dl_headers' = <<>>
    /\ UNCHANGED <<run, fs, max_file_size, dl_url>>
    /\ UNCHANGED <<wf_vars, rt_pc, max_retries, retry_delay, rt_ret, ext_vars, exc>>

(***************************************************************************)
(* classify_link run on one input text                                     *)
(***************************************************************************)
ClIdle ==
    /\ cl_text = <<>>
    /\ cl_ret = NoClassification

ClInit ==
    /\ cl_text \in Texts
    /\ cl_ret = NoClassification

ClassifyText ==
    /\ run = "classify_link"
    /\ cl_ret = NoClassification
    /\ \E fault \in BOOLEAN :
        IF fault /\ ~ExceptClause("classify_link")
        THEN /\ exc' = [exc EXCEPT !["classify_link"] = "escaped"]
             /\ UNCHANGED cl_ret
        ELSE /\ cl_ret' = IF fault
                          THEN Classification(FALSE, "exception", <<>>, NoLink)
                          ELSE ClassifyLink(cl_text)
             /\ exc' = IF fault THEN [exc EXCEPT !["classify_link"] = "caught"]
                       ELSE exc
    /\ UNCHANGED <<run, cl_text, sel_vars, dv_vars, bl_vars, cc_vars, ea_vars, base_vars>>

(***************************************************************************)
(* VideoDownloader._select_best_download_url                               *)
(***************************************************************************)
Candidate(url, quality, format, size) ==
    [url |-> url, quality |-> quality, format |-> format, size |-> size]

\* 1024 * 1024
MB == 1048576

\* The substrings of quality.lower() the scoring looks for
Markers(quality) ==
    CASE quality = "1080p" -> {"1080"}
      [] quality = "720p" -> {"720"}
      [] quality = "480p" -> {"480"}
      [] quality = "HD 720" -> {"hd", "720"}
      [] OTHER -> {}

QualityScore(quality) ==
    IF "1080" \in Markers(quality) \/ "hd" \in Markers(quality) THEN 3
    ELSE IF "720" \in Markers(quality) THEN 2
    ELSE IF "480" \in Markers(quality) THEN 1
    ELSE 0

FormatScore(format) ==
    IF format \in {"mp4", "webm"} THEN 2
    ELSE IF format = "direct" THEN 1
    ELSE 0

\* size_mb < 100 for size_mb = size / MB is size < 100 * MB
SizeScoreUnknownIsSmall(size) ==
    IF size < 100 * MB THEN 2
    ELSE IF size < 500 * MB THEN 1
    ELSE 0

SizeScore(size) ==
    IF size > 0
    THEN IF size < 100 * MB THEN 2
         ELSE IF size < 500 * MB THEN 1
         ELSE 0
    ELSE 0

Score(url_info) ==
    QualityScore(url_info.quality) + FormatScore(url_info.format)
        + SizeScore(url_info.size)

\* The loop over download_urls from entry i on, with the running best
RECURSIVE SelectLoopLastWins(_, _, _, _)
SelectLoopLastWins(download_urls, i, best_url, best_score) ==
    IF i > Len(download_urls) THEN best_url
    ELSE IF Score(download_urls[i]) >= best_score
         THEN SelectLoopLastWins(download_urls, i + 1, download_urls[i].url,
                                 Score(download_urls[i]))
         ELSE SelectLoopLastWins(download_urls, i + 1, best_url, best_score)

RECURSIVE SelectLoop(_, _, _, _)
SelectLoop(download_urls, i, best_url, best_score) ==
    IF i > Len(download_urls) THEN best_url
    ELSE IF Score(download_urls[i]) > best_score
         THEN SelectLoop(download_urls, i + 1, download_urls[i].url,
                         Score(download_urls[i]))
         ELSE SelectLoop(download_urls, i + 1, best_url, best_score)

SelectBestDownloadUrl(download_urls) ==
    IF download_urls = <<>> THEN ""
    ELSE SelectLoop(download_urls, 1, download_urls[1].url, 0)

\* The quality labels, formats and sizes the candidate lists are drawn from
Qualities == {"1080p", "720p", "480p", "HD 720", "unknown"}

Formats == {"mp4", "webm", "flv", "direct"}

Sizes == {0, 50 * MB, 200 * MB, 600 * MB}

CandidateUrl(i) == "https://cdn.example.com/" \o ToString(i)

\* Each of quality, format and size takes all its values against one fixed
\* choice of the other two.
CandidatePool ==
    { c \in Qualities \X Formats \X Sizes :
        \/ c[2] = "mp4" /\ c[3] = 50 * MB
        \/ c[1] = "1080p" /\ c[3] = 600 * MB
        \/ c[1] = "unknown" /\ c[2] = "flv" }

CandidateLists ==
    UNION { { [i \in 1..n |-> Candidate(CandidateUrl(i), c[i][1], c[i][2], c[i][3])] :
                c \in [1..n -> CandidatePool] } : n \in 0..MaxCandidates }

SelIdle ==
    /\ sel_pc = "idle"
    /\ sel_urls = <<>>
    /\ sel_scores = <<>>
    /\ sel_ret = Absent

SelInit ==
    /\ sel_pc = "call"
    /\ sel_urls \in CandidateLists
    /\ sel_scores = <<>>
    /\ sel_ret = Absent

SelectBest ==
    /\ run = "select_best"
    /\ sel_pc = "call"
    /\ sel_pc' = "done"
    /\ sel_scores' = [i \in 1..Len(sel_urls) |-> Score(sel_urls[i])]
    /\ sel_ret' = SelectBestDownloadUrl(sel_urls)
    /\ UNCHANGED <<run, sel_urls, cl_vars, dv_vars, bl_vars, cc_vars, ea_vars, base_vars, exc>>

(***************************************************************************)
(* VideoDownloader.download_video and the parsers it dispatches to.        *)
(***************************************************************************)
DvResult(success, error, title, download_urls, suggested_parser, file_path) ==
    [success |-> success, error |-> error, title |-> title,
     download_urls |-> download_urls, suggested_parser |-> suggested_parser,
     file_path |-> file_path]

DvFailure(error) == DvResult(FALSE, error, Absent, <<>>, Absent, Absent)

NoDvResult == DvResult(FALSE, Absent, Absent, <<>>, Absent, Absent)

\* What parse_link did: whether it sent a network request, and its return value
ParseOutcome(network, result) == [network |-> network, result |-> result]

\* GenericParser._extract_filename
ExtractFilenameWholeUrl(u) == u.url

ExtractFilename(u) == IF u.segment # "" THEN u.segment ELSE "unknown_file"

\* f"{platform}_parser"
SuggestedParser(platform) == platform \o "_parser"

\* GenericParser.parse_link
GenericParseLink(u) ==
    IF u.is_direct_link
    THEN DvResult(TRUE, Absent, ExtractFilename(u),
                  <<Candidate(u.url, "unknown", "direct", 0)>>, Absent, Absent)
    ELSE IF u.platform # "unknown"
         THEN DvResult(FALSE, "use the dedicated parser", Absent, <<>>,
                       SuggestedParser(u.platform), Absent)
         ELSE DvFailure("unrecognized link type")

\* BaseParser.validate_url: the URLs of the table all start with http
ValidateUrl(platform_name, u) == platform_name \in u.names

\* BilibiliParser.validate_url: the patterns of the classifier's bilibili group
BilibiliValidateUrl(u) == u.bilibili # Absent

\* `"b23.tv" in url`: a link the bilibili patterns match without "bilibili" in it
IsShortLink(u) == u.bilibili # Absent /\ "bilibili" \notin u.names

\* The download_urls _build_download_urls can make of an API payload
BilibiliDownloadUrls ==
    { <<>>,
      <<Candidate("https://upos.bilivideo.com/v.mp4", "standard", "mp4", 0)>>,
      <<Candidate("https://upos.bilivideo.com/v.mp4", "720p", "mp4", 0),
        Candidate("https://upos.bilivideo.com/w.mp4", "1080p", "mp4", 0)>> }

\* BilibiliParser.parse_link: validation, then _extract_video_id (a request
\* for b23.tv links), then _call_bilibili_api
BilibiliParseLink(u) ==
    IF ~BilibiliValidateUrl(u)
    THEN { ParseOutcome(FALSE, DvFailure("invalid bilibili link")) }
    ELSE (IF IsShortLink(u)
          THEN { ParseOutcome(TRUE, DvFailure("cannot extract video id")) }
          ELSE {})
         \cup { ParseOutcome(TRUE, DvFailure(e)) :
                  e \in {"bilibili api error", "bilibili request failed"} }
         \cup { ParseOutcome(TRUE, DvResult(TRUE, Absent, "title", d, Absent, Absent)) :
                  d \in BilibiliDownloadUrls }

\* A yt-dlp format entry whose quality is a number: quality.lower() raises
NotAString == "<number>"

YoutubeDownloadUrls ==
    { <<>>,
      <<Candidate("https://rr1.googlevideo.com/v", "unknown", "unknown", 0)>>,
      <<Candidate("https://rr1.googlevideo.com/v", NotAString, "unknown", 0)>> }

\* self.yt_dlp is set: USE_YT_DLP is "true" and yt_dlp imports
YtDlpLoadedAlways(cfg) == TRUE

YtDlpLoaded(cfg) == cfg.yt_dlp

\* YouTubeParser.parse_link
YoutubeParseLink(u, cfg) ==
    IF ~ValidateUrl("youtube", u)
    THEN { ParseOutcome(FALSE, DvFailure("invalid youtube link")) }
    ELSE IF ~YtDlpLoaded(cfg)
         THEN { ParseOutcome(FALSE, DvFailure("youtube parsing needs yt-dlp")) }
         ELSE { ParseOutcome(TRUE, DvFailure("exception")) }
              \cup { ParseOutcome(TRUE, DvResult(TRUE, Absent, "title", d,
                                                 Absent, Absent)) :
                       d \in YoutubeDownloadUrls }

\* VimeoParser.parse_link: get_video_info fails with or without the API key
VimeoParseLink(u, cfg) ==
    IF ~ValidateUrl("vimeo", u)
    THEN { ParseOutcome(FALSE, DvFailure("invalid vimeo link")) }
    ELSE IF ~cfg.vimeo_api_key
         THEN { ParseOutcome(FALSE, DvFailure("vimeo api key not configured")) }
         ELSE { ParseOutcome(FALSE, DvFailure("vimeo parsing not implemented")) }

\* The keys of self.parsers, in order
Parsers == <<"bilibili", "youtube", "vimeo", "generic">>

ParserKeys == { Parsers[i] : i \in 1..Len(Parsers) }

ParseLink(parser, u, cfg) ==
    CASE parser = "bilibili" -> BilibiliParseLink(u)
      [] parser = "youtube" -> YoutubeParseLink(u, cfg)
      [] parser = "vimeo" -> VimeoParseLink(u, cfg)
      [] parser = "generic" -> { ParseOutcome(FALSE, GenericParseLink(u)) }

\* _detect_platform
DetectPlatform(u) ==
    IF BilibiliValidateUrl(u) THEN "bilibili"
    ELSE IF ValidateUrl("youtube", u) THEN "youtube"
    ELSE IF ValidateUrl("vimeo", u) THEN "vimeo"
    ELSE "generic"

\* _extract_filename_from_url: ".mp4" is appended to a name without a dot
ExtractFilenameFromUrl(u) ==
    IF u.direct_video # Absent \/ u.direct_audio # Absent
    THEN u.segment ELSE u.segment \o ".mp4"

\* What download_video returns after download_file(url, filename) returned
DownloadFileReturns(title) ==
    { DvFailure("download failed"),
      DvResult(TRUE, Absent, title, <<>>, Absent, "downloads/file") }

\* `if not download_urls`
NoDownloadUrlsNever(download_urls) == FALSE

NoDownloadUrls(download_urls) == download_urls = <<>>

\* _select_best_download_url raises on an entry whose quality is no string
SelectorRaises(download_urls) ==
    \E i \in 1..Len(download_urls) : download_urls[i].quality = NotAString

DvCfgs == [yt_dlp : BOOLEAN, vimeo_api_key : BOOLEAN]

NoCfg == [yt_dlp |-> FALSE, vimeo_api_key |-> FALSE]

NoUrl == Url(Absent, Absent, Absent, Absent, Absent, Absent, Absent, Absent,
             FALSE, "", "unknown", {})

DvIdle ==
    /\ dv_pc = "idle"
    /\ dv_url = NoUrl
    /\ dv_platform = Absent
    /\ dv_cfg = NoCfg
    /\ dv_parser = Absent
    /\ dv_calls = <<>>
    /\ dv_parse = NoDvResult
    /\ dv_ret = NoDvResult

\* The workflow passes the type of the primary link; the parameter defaults to
\* None, and "generic" is the key of the catch-all parser.
DvInit ==
    /\ dv_pc = "start"
    /\ dv_url \in Urls
    /\ dv_platform \in {Absent, "generic", IdentifyLinkType(dv_url).type}
    /\ dv_cfg \in DvCfgs
    /\ dv_parser = Absent
    /\ dv_calls = <<>>
    /\ dv_parse = NoDvResult
    /\ dv_ret = NoDvResult

\* Lines 69-102: platform detection, the direct-link branch, the parser lookup
DvDispatch ==
    /\ run = "download_video"
    /\ dv_pc = "start"
    /\ LET platform == IF dv_platform = Absent
                       THEN DetectPlatform(dv_url) ELSE dv_platform
       IN  IF platform \in {"direct_video", "direct_audio"}
           THEN /\ dv_calls' = Append(dv_calls, "download_file")
                /\ dv_ret' \in DownloadFileReturns(ExtractFilenameFromUrl(dv_url))
                /\ dv_pc' = "done"
                /\ UNCHANGED dv_parser
           ELSE IF platform \notin ParserKeys
                THEN /\ dv_ret' = DvFailure("unsupported platform")
                     /\ dv_pc' = "done"
                     /\ UNCHANGED <<dv_calls, dv_parser>>
                ELSE /\ dv_parser' = platform
                     /\ dv_pc' = "parse"
                     /\ UNCHANGED <<dv_calls, dv_ret>>
    /\ UNCHANGED <<run, dv_url, dv_platform, dv_cfg, dv_parse, exc>>
    /\ UNCHANGED <<cl_vars, sel_vars, bl_vars, cc_vars, ea_vars, base_vars>>

\* Lines 104-113: parser.parse_link and the return of its failure
DvParseLink ==
    /\ run = "download_video"
    /\ dv_pc = "parse"
    /\ \E o \in ParseLink(dv_parser, dv_url, dv_cfg) :
        /\ dv_calls' = dv_calls \o <<SuggestedParser(dv_parser)>>
                         \o (IF o.network THEN <<"network">> ELSE <<>>)
        /\ dv_parse' = o.result
        /\ IF ~o.result.success
           THEN dv_ret' = o.result /\ dv_pc' = "done"
           ELSE dv_pc' = "select" /\ UNCHANGED dv_ret
    /\ UNCHANGED <<run, dv_url, dv_platform, dv_cfg, dv_parser, exc>>
    /\ UNCHANGED <<cl_vars, sel_vars, bl_vars, cc_vars, ea_vars, base_vars>>

\* Lines 115-143: the empty-list check, the selector, download_file
DvSelectDownload ==
    /\ run = "download_video"
    /\ dv_pc = "select"
    /\ dv_pc' = "done"
    /\ IF NoDownloadUrls(dv_parse.download_urls)
       THEN /\ dv_ret' = DvFailure("no download url")
            /\ UNCHANGED <<dv_calls, exc>>
       ELSE IF SelectorRaises(dv_parse.download_urls)
            THEN /\ dv_calls' = Append(dv_calls, "_select_best_download_url")
                 /\ IF ExceptClause("download_video")
                    THEN /\ dv_ret' = DvFailure("exception")
                         /\ exc' = [exc EXCEPT !["download_video"] = "caught"]
                    ELSE /\ exc' = [exc EXCEPT !["download_video"] = "escaped"]
                         /\ UNCHANGED dv_ret
            ELSE /\ dv_calls' = dv_calls \o
                       <<"_select_best_download_url", "download_file">>
                 /\ dv_ret' \in DownloadFileReturns(dv_parse.title)
                 /\ UNCHANGED exc
    /\ UNCHANGED <<run, dv_url, dv_platform, dv_cfg, dv_parser, dv_parse>>
    /\ UNCHANGED <<cl_vars, sel_vars, bl_vars, cc_vars, ea_vars, base_vars>>

(***************************************************************************)
(* BilibiliParser._call_bilibili_api and the use parse_link makes of it.   *)
(* The loop shares max_retries, retry_delay, attempt and trace with the    *)
(* other retry loops; a request whose payload has code != 1 is recorded    *)
(* with the msg of the payload as its outcome.                             *)
(***************************************************************************)
\* result.get("msg", "未知错误") of a payload whose code is not 1
PayloadMsgs == {"video not found", "rate limited", "unknown error"}

\* Statuses for which response.raise_for_status() raises HTTPError, a
\* RequestException: they reach the `except requests.exceptions.RequestException`
\* clause like any other request failure.
BilibiliHttpErrors == {"401", "400", "429", "502"}

BilibiliOutcomes ==
    {"ok", "request_exception", "exception"} \cup PayloadMsgs \cup BilibiliHttpErrors

\* f"B站API错误: {error_msg}"
ApiError(error_msg) == "bilibili api error: " \o error_msg

\* `if attempt == self.max_retries - 1`
LastAttemptEarly(a, max) == a >= max - 2

LastAttemptNever(a, max) == FALSE

LastAttempt(a, max) == a = max - 1

BlIdle ==
    /\ bl_ret = NoResult
    /\ bl_url = NoUrl
    /\ bl_calls = <<>>
    /\ bl_video_id = Absent

BlInit ==
    /\ bl_ret = NoResult
    /\ bl_url \in Urls
    /\ bl_calls = <<>>
    /\ bl_video_id = Absent

\* What _resolve_short_url can return: the id in the Location of a 302, or
\* None (another status, no /video/ in the Location, an exception)
ShortUrlLookups == {"BV1xx411c7mD", Absent}

\* _extract_video_id: the redirect lookup for a b23.tv url, the capture of
\* the url form otherwise
ExtractVideoId(u) == IF IsShortLink(u) THEN ShortUrlLookups ELSE {u.bilibili}

\* `if not video_id:`
NoVideoIdNever(video_id) == FALSE

NoVideoId(video_id) == video_id = Absent

\* parse_link lines 66-88: validate_url, _extract_video_id, and the call of
\* _call_bilibili_api when both gave a result
BilibiliParseStart ==
    /\ run = "bilibili"
    /\ rt_pc = "loop"
    /\ bl_calls = <<>>
    /\ IF ~BilibiliValidateUrl(bl_url)
       THEN /\ bl_calls' = <<"validate_url">>
            /\ bl_ret' = Result("parse_link", FALSE, "invalid bilibili link", Absent)
            /\ rt_pc' = "returned"
            /\ UNCHANGED bl_video_id
       ELSE \E id \in ExtractVideoId(bl_url) :
            /\ bl_video_id' = id
            /\ bl_calls' = <<"validate_url", "_extract_video_id">>
                    \o (IF IsShortLink(bl_url) THEN <<"_resolve_short_url">> ELSE <<>>)
                    \o (IF NoVideoId(id) THEN <<>> ELSE <<"_call_bilibili_api">>)
            /\ IF NoVideoId(id)
               THEN /\ bl_ret' = Result("parse_link", FALSE,
                                        "cannot extract video id", Absent)
                    /\ rt_pc' = "returned"
               ELSE UNCHANGED <<bl_ret, rt_pc>>
    /\ UNCHANGED <<run, bl_url, max_retries, retry_delay, attempt, trace, rt_ret,
                   wf_vars, dl_vars, exc>>
    /\ UNCHANGED <<cl_vars, sel_vars, dv_vars, cc_vars, ea_vars>>

BilibiliAttempt ==
    /\ run = "bilibili"
    /\ rt_pc = "loop"
    /\ Has(bl_calls, "_call_bilibili_api")
    /\ InRange(attempt, max_retries)
    /\ RequestReturns
    /\ \E o \in BilibiliOutcomes :
        /\ IF o = "ok"
           THEN /\ trace' = Append(trace, Request(attempt + 1, o))
                /\ rt_ret' = Result("_call_bilibili_api", TRUE, Absent, "data")
                /\ rt_pc' = "done"
                /\ UNCHANGED attempt
           ELSE IF o = "exception"
           THEN /\ trace' = Append(trace, Request(attempt + 1, o))
                /\ rt_ret' = Result("_call_bilibili_api", FALSE, "exception", Absent)
                /\ rt_pc' = "done"
                /\ UNCHANGED attempt
           ELSE IF LastAttempt(attempt, max_retries)
           THEN /\ trace' = Append(trace, Request(attempt + 1, o))
                /\ rt_ret' = Result("_call_bilibili_api", FALSE,
                                    IF o \in PayloadMsgs THEN ApiError(o)
                                    ELSE "request failed", Absent)
                /\ rt_pc' = "done"
                /\ UNCHANGED attempt
           ELSE /\ trace' = trace \o <<Request(attempt + 1, o), Sleep(retry_delay)>>
                /\ attempt' = attempt + 1
                /\ UNCHANGED <<rt_pc, rt_ret>>
    /\ UNCHANGED <<run, max_retries, retry_delay, wf_vars, dl_vars, exc>>
    /\ UNCHANGED <<cl_vars, sel_vars, dv_vars, bl_vars, cc_vars, ea_vars>>

\* The return after the loop
BilibiliExhausted ==
    /\ run = "bilibili"
    /\ rt_pc = "loop"
    /\ Has(bl_calls, "_call_bilibili_api")
    /\ ~InRange(attempt, max_retries)
    /\ rt_ret' = Result("_call_bilibili_api", FALSE, "retries exhausted", Absent)
    /\ rt_pc' = "done"
    /\ UNCHANGED <<run, max_retries, retry_delay, attempt, trace, wf_vars,
                   dl_vars, exc>>
    /\ UNCHANGED <<cl_vars, sel_vars, dv_vars, bl_vars, cc_vars, ea_vars>>

\* parse_link lines 88-111: `if not api_result.get("success"): return api_result`
BilibiliParseReturn ==
    /\ run = "bilibili"
    /\ rt_pc = "done"
    /\ bl_ret' = IF ~rt_ret.success THEN rt_ret
                 ELSE Result("parse_link", TRUE, Absent, "download_urls")
    /\ rt_pc' = "returned"
    /\ UNCHANGED <<run, max_retries, retry_delay, attempt, trace, rt_ret,
                   wf_vars, dl_vars, exc>>
    /\ UNCHANGED <<cl_vars, sel_vars, dv_vars, cc_vars, ea_vars, bl_url, bl_calls,
                   bl_video_id>>

(***************************************************************************)
(* Two download_file calls with the same file_path running concurrently.   *)
(* The calls share the file system only.  open(file_path, 'wb') creates    *)
(* the file or truncates it; os.remove unlinks it from file_path while an  *)
(* open handle of another call keeps writing to the unlinked file.         *)
(***************************************************************************)
Callers == {1, 2}

Max(a, b) == IF a >= b THEN a ELSE b

CcRequestOutcomes == {"ok", "404", "timeout"}

CcIdle ==
    /\ cc_pc = [p \in Callers |-> "idle"]
    /\ cc_attempt = [p \in Callers |-> 0]
    /\ cc_downloaded = [p \in Callers |-> 0]
    /\ cc_wrote = [p \in Callers |-> FALSE]
    /\ cc_linked = [p \in Callers |-> FALSE]
    /\ cc_ret = [p \in Callers |-> NoDlResult]
    /\ cc_fs = NoFile
    /\ cc_max = 0

CcInit ==
    /\ cc_pc = [p \in Callers |-> "loop"]
    /\ cc_attempt = [p \in Callers |-> 0]
    /\ cc_downloaded = [p \in Callers |-> 0]
    /\ cc_wrote = [p \in Callers |-> FALSE]
    /\ cc_linked = [p \in Callers |-> FALSE]
    /\ cc_ret = [p \in Callers |-> NoDlResult]
    /\ cc_fs = NoFile
    /\ cc_max \in 1..MaxFileSize

CcReturn(p, result) ==
    /\ cc_ret' = [cc_ret EXCEPT ![p] = result]
    /\ cc_pc' = [cc_pc EXCEPT ![p] = "done"]

\* The except clauses: sleep and continue, or return the failure
CcHandle(p, error) ==
    IF DlRetryable(error) /\ AttemptsRemain(cc_attempt[p], dl_max_retries)
    THEN /\ cc_attempt' = [cc_attempt EXCEPT ![p] = @ + 1]
         /\ cc_pc' = [cc_pc EXCEPT ![p] = "loop"]
         /\ UNCHANGED cc_ret
    ELSE /\ CcReturn(p, DlResult(FALSE, error, -1))
         /\ UNCHANGED cc_attempt

\* The head of an iteration: the loop bound and the existing-file check
CcCheck(p) ==
    /\ cc_pc[p] = "loop"
    /\ IF ~InRange(cc_attempt[p], dl_max_retries)
       THEN CcReturn(p, DlResult(FALSE, "retries exhausted", -1))
       ELSE IF FileExists(cc_fs)
       THEN CcReturn(p, DlResult(TRUE, Absent, cc_fs.size))
       ELSE /\ cc_pc' = [cc_pc EXCEPT ![p] = "request"]
            /\ UNCHANGED cc_ret
    /\ UNCHANGED <<cc_attempt, cc_downloaded, cc_wrote, cc_linked, cc_fs, cc_max>>

\* requests.get, the content-length check and open(file_path, 'wb')
CcRequest(p) ==
    /\ cc_pc[p] = "request"
    /\ \E o \in CcRequestOutcomes :
        IF o # "ok"
        THEN /\ CcHandle(p, o)
             /\ UNCHANGED <<cc_downloaded, cc_wrote, cc_linked, cc_fs>>
        ELSE \E cl \in {NoLength, MaxFileSize + 1} :
             IF DeclaredTooLarge(cl, cc_max)
             THEN /\ CcReturn(p, DlResult(FALSE, "declared size over limit", -1))
                  /\ UNCHANGED <<cc_attempt, cc_downloaded, cc_wrote, cc_linked,
                                 cc_fs>>
             ELSE /\ cc_fs' = File(0)
                  /\ cc_linked' = [cc_linked EXCEPT ![p] = TRUE]
                  /\ cc_wrote' = [cc_wrote EXCEPT ![p] = TRUE]
                  /\ cc_downloaded' = [cc_downloaded EXCEPT ![p] = 0]
                  /\ cc_pc' = [cc_pc EXCEPT ![p] = "stream"]
                  /\ UNCHANGED <<cc_attempt, cc_ret>>
    /\ UNCHANGED cc_max

\* f.write(chunk) at the offset of the handle, then the running-size check
CcChunk(p) ==
    /\ cc_pc[p] = "stream"
    /\ \E n \in 1..ChunkSize :
        /\ cc_downloaded' = [cc_downloaded EXCEPT ![p] = @ + n]
        /\ IF OverLimit(cc_downloaded'[p], cc_max)
           THEN IF cc_fs.exists
                THEN /\ cc_fs' = NoFile
                     /\ cc_linked' = [q \in Callers |-> FALSE]
                     /\ CcReturn(p, DlResult(FALSE, "downloaded size over limit", -1))
                ELSE /\ CcReturn(p, DlResult(FALSE, "exception", -1))
                     /\ UNCHANGED <<cc_fs, cc_linked>>
           ELSE /\ cc_fs' = IF cc_linked[p]
                            THEN File(Max(cc_fs.size, cc_downloaded'[p]))
                            ELSE cc_fs
                /\ UNCHANGED <<cc_linked, cc_ret, cc_pc>>
    /\ UNCHANGED <<cc_attempt, cc_wrote, cc_max>>

\* iter_content raises: the handle is closed and the except clauses run
CcStreamError(p) ==
    /\ cc_pc[p] = "stream"
    /\ CcHandle(p, "timeout")
    /\ cc_linked' = [cc_linked EXCEPT ![p] = FALSE]
    /\ UNCHANGED <<cc_downloaded, cc_wrote, cc_fs, cc_max>>

\* The body ends: the handle is closed and the file at file_path is verified
CcStreamEnd(p) ==
    /\ cc_pc[p] = "stream"
    /\ cc_linked' = [cc_linked EXCEPT ![p] = FALSE]
    /\ IF cc_fs.exists
       THEN IF cc_fs.size = 0
            THEN /\ cc_fs' = NoFile
                 /\ CcReturn(p, DlResult(FALSE, "downloaded file is empty", -1))
            ELSE /\ CcReturn(p, DlResult(TRUE, Absent, cc_fs.size))
                 /\ UNCHANGED cc_fs
       ELSE /\ CcReturn(p, DlResult(FALSE, "file missing after download", -1))
            /\ UNCHANGED cc_fs
    /\ UNCHANGED <<cc_attempt, cc_downloaded, cc_wrote, cc_max>>

CcFrame ==
    UNCHANGED <<run, base_vars, cl_vars, sel_vars, dv_vars, bl_vars, ea_vars, exc>>

ConcurrentCheck ==
    /\ run = "concurrent"
    /\ \E p \in Callers : CcCheck(p)
    /\ CcFrame

ConcurrentRequest ==
    /\ run = "concurrent"
    /\ \E p \in Callers : CcRequest(p)
    /\ CcFrame

ConcurrentChunk ==
    /\ run = "concurrent"
    /\ \E p \in Callers : CcChunk(p)
    /\ CcFrame

ConcurrentStreamError ==
    /\ run = "concurrent"
    /\ \E p \in Callers : CcStreamError(p)
    /\ CcFrame

ConcurrentStreamEnd ==
    /\ run = "concurrent"
    /\ \E p \in Callers : CcStreamEnd(p)
    /\ CcFrame

(***************************************************************************)
(* AudioProcessor.extract_audio_from_video, with _extract_audio_with_ffmpeg *)
(* and _create_mock_audio_file.                                            *)
(***************************************************************************)
\* How subprocess.run(ffmpeg ...) ends: return code 0, another return code,
\* TimeoutExpired, FileNotFoundError (ffmpeg not installed), another exception
FfmpegOutcomes == {"ok", "nonzero", "timeout", "not_installed", "exception"}

\* The file at audio_path: none, an empty one, a non-empty one
AudioFiles == {NoFile, File(0), File(1)}

\* What ffmpeg can leave at audio_path; nothing is written when it cannot start
FfmpegLeaves(outcome, audio) ==
    IF outcome = "not_installed" THEN {audio} ELSE AudioFiles

\* The boolean _extract_audio_with_ffmpeg returns
ExtractAudioWithFfmpegAlways(outcome) == TRUE

ExtractAudioWithFfmpeg(outcome) == outcome = "ok"

\* _create_mock_audio_file: the header and the silence are written, or open()
\* or write() raises, which its except clause logs and swallows
MockWrites == {"written", "failed"}

CreateMockAudioFile(audio, w) == IF w = "written" THEN File(1) ELSE audio

EaResult(success, error) ==
    Result("extract_audio_from_video", success, error,
           IF success THEN "audio_path" ELSE Absent)

EaIdle ==
    /\ ea_pc = "idle"
    /\ ea_video = FALSE
    /\ ea_audio = NoFile
    /\ ea_ffmpeg = "not_run"
    /\ ea_mock = "not_called"
    /\ ea_ret = NoResult

EaInit ==
    /\ ea_pc = "start"
    /\ ea_video \in BOOLEAN
    /\ ea_audio \in AudioFiles
    /\ ea_ffmpeg = "not_run"
    /\ ea_mock = "not_called"
    /\ ea_ret = NoResult

\* Lines 147-175: the video check, the existing-audio check, the ffmpeg run
ExtractStart ==
    /\ run = "extract_audio"
    /\ ea_pc = "start"
    /\ \E fault \in BOOLEAN :
        IF fault
        THEN /\ ea_ret' = ExceptRecord("extract_audio_from_video")
             /\ exc' = [exc EXCEPT !["extract_audio_from_video"] = "caught"]
             /\ ea_pc' = "done"
             /\ UNCHANGED <<ea_audio, ea_ffmpeg>>
        ELSE IF ~ea_video
        THEN /\ ea_ret' = EaResult(FALSE, "video file missing")
             /\ ea_pc' = "done"
             /\ UNCHANGED <<ea_audio, ea_ffmpeg, exc>>
        ELSE IF ea_audio.exists
        THEN /\ ea_ret' = EaResult(TRUE, Absent)
             /\ ea_pc' = "done"
             /\ UNCHANGED <<ea_audio, ea_ffmpeg, exc>>
        ELSE \E o \in FfmpegOutcomes :
             \E f \in FfmpegLeaves(o, ea_audio) :
                /\ ea_ffmpeg' = o
                /\ ea_audio' = f
                /\ ea_pc' = "ffmpeg_done"
                /\ UNCHANGED <<ea_ret, exc>>
    /\ UNCHANGED <<run, ea_video, ea_mock, base_vars, cl_vars, sel_vars, dv_vars,
                   bl_vars, cc_vars>>

\* Lines 177-205: the extracted file is verified, or the mock file is created
ExtractFinish ==
    /\ run = "extract_audio"
    /\ ea_pc = "ffmpeg_done"
    /\ IF ExtractAudioWithFfmpeg(ea_ffmpeg)
       THEN /\ ea_ret' = IF ea_audio.exists /\ ea_audio.size > 0
                         THEN EaResult(TRUE, Absent)
                         ELSE EaResult(FALSE, "invalid audio file")
            /\ UNCHANGED <<ea_audio, ea_mock>>
       ELSE \E w \in MockWrites :
            /\ ea_mock' = w
            /\ ea_audio' = CreateMockAudioFile(ea_audio, w)
            /\ ea_ret' = EaResult(TRUE, Absent)
    /\ ea_pc' = "done"
    /\ UNCHANGED <<run, ea_video, ea_ffmpeg, base_vars, cl_vars, sel_vars, dv_vars,
                   bl_vars, cc_vars, exc>>

Init ==
    /\ run \in {"workflow", "gpt", "whisper", "download", "classify_link",
               "select_best", "download_video", "bilibili", "concurrent",
               "extract_audio"}
    /\ IF run = "workflow" THEN WfInit ELSE WfIdle
    /\ IF run \in {"gpt", "whisper", "bilibili"} THEN RtInit ELSE RtIdle
    /\ IF run = "download" THEN DlInit ELSE DlIdle
    /\ IF run = "classify_link" THEN ClInit ELSE ClIdle
    /\ IF run = "select_best" THEN SelInit ELSE SelIdle
    /\ IF run = "download_video" THEN DvInit ELSE DvIdle
    /\ IF run = "bilibili" THEN BlInit ELSE BlIdle
    /\ IF run = "concurrent" THEN CcInit ELSE CcIdle
    /\ IF run = "extract_audio" THEN EaInit ELSE EaIdle
    /\ exc = NoException

Next ==
    \/ Classify
    \/ DownloadVideo
    \/ ExtractAudio
    \/ Transcribe
    \/ ProcessText
    \/ Save
    \/ Attempt
    \/ Exhausted
    \/ DlAttempt
    \/ DlChunk
    \/ DlStreamError
    \/ DlStreamEnd
    \/ DlCall
    \/ ClassifyText
    \/ SelectBest
    \/ DvDispatch
    \/ DvParseLink
    \/ DvSelectDownload
    \/ BilibiliParseStart
    \/ BilibiliAttempt
    \/ BilibiliExhausted
    \/ BilibiliParseReturn
    \/ ConcurrentCheck
    \/ ConcurrentRequest
    \/ ConcurrentChunk
    \/ ConcurrentStreamError
    \/ ConcurrentStreamEnd
    \/ ExtractStart
    \/ ExtractFinish

Spec == Init /\ [][Next]_vars

\* Every operation is sequential code: a step that can be taken is taken.
LiveSpec == Init /\ [][Next]_vars /\ WF_vars(Next)

(***************************************************************************)
(* Properties                                                              *)
(***************************************************************************)
NumRequestsUpTo(i) ==
    Cardinality({ j \in 1..i : trace[j].ev = "request" })

NumRequests == NumRequestsUpTo(Len(trace))

MaxAttempts == IF run = "download" THEN dl_max_retries ELSE max_retries

Retrying == run \in {"gpt", "whisper", "download"}

\* C1: the stages of process_video_link are invoked in the fixed order, and when
\* classify_link, download_video, extract_audio_from_video or transcribe_audio
\* returns success=false no later stage is invoked and the run returns exactly
\* that stage's result record.
StagesInOrderFailFast ==
    /\ Len(invoked) <= Len(StageOrder)
    /\ \A i \in 1..Len(invoked) : invoked[i] = StageOrder[i]
    /\ \A i \in 1..4 :
        (i <= Len(invoked) /\ ~stage_res[StageOrder[i]].success) =>
            /\ Len(invoked) = i
            /\ wf_pc = "done"
            /\ wf_ret = stage_res[StageOrder[i]]

StagesInOrderFailFastWitness ==
    /\ wf_pc = "done"
    /\ invoked = SubSeq(StageOrder, 1, 3)
    /\ ~stage_res["extract_audio_from_video"].success
    /\ wf_ret.error = "invalid audio file"

\* C2: when process_text returns success=false the run still returns
\* success=true with formatted_text equal to the raw transcript and
\* text_processing_success false, and _save_transcription_result is invoked.
TextFailureDegrades ==
    (Len(invoked) >= 5 /\ ~stage_res["process_text"].success) =>
        /\ wf_ret.success
        /\ wf_ret.formatted_text = stage_res["transcribe_audio"].transcript
        /\ wf_ret.text_processing_success = FALSE
        /\ wf_pc \in {"_save_transcription_result", "done"}
        /\ wf_pc = "done" => invoked[Len(invoked)] = "_save_transcription_result"

TextFailureDegradesWitness ==
    /\ wf_pc = "done"
    /\ Len(invoked) = 6
    /\ stage_res["process_text"].error = "gpt failed"
    /\ wf_ret.formatted_text = "raw transcript"

\* C3: in one run every stage operation is invoked at most once, whatever the
\* stages return.
NoStageRetried ==
    \A i, j \in 1..Len(invoked) : invoked[i] = invoked[j] => i = j

NoStageRetriedWitness ==
    /\ wf_pc = "done"
    /\ ~wf_ret.success
    /\ invoked = <<"classify_link", "download_video">>

\* C4: a retrying call sends at most max_attempts requests, numbered up to
\* max_attempts, and never sleeps to retry once the max_attempts-th request has
\* been sent.
NoRetryBeyondMaxAttempts ==
    Retrying =>
        /\ NumRequests <= MaxAttempts
        /\ \A i \in 1..Len(trace) :
            /\ trace[i].ev = "request" => trace[i].n <= MaxAttempts
            /\ trace[i].ev = "sleep" => NumRequestsUpTo(i) < MaxAttempts

NoRetryBeyondMaxAttemptsWitness ==
    /\ run = "gpt"
    /\ rt_pc = "done"
    /\ max_retries >= 2
    /\ NumRequests = max_retries
    /\ trace[Len(trace)].outcome = "429"

\* C5: in _call_gpt_api and _transcribe_with_whisper a 401 or 400 response ends
\* the call with success=false on the attempt where it occurs: it is the last
\* event of the call, with no sleep and no request after it.
AuthAndBadRequestNeverRetried ==
    run \in {"gpt", "whisper"} =>
        \A i \in 1..Len(trace) :
            trace[i].outcome \in {"401", "400"} =>
                /\ i = Len(trace)
                /\ rt_pc = "done"
                /\ ~rt_ret.success

AuthAndBadRequestNeverRetriedWitness ==
    /\ run = "whisper"
    /\ max_retries = MaxRetries
    /\ Len(trace) = 1
    /\ trace[1].outcome = "401"
    /\ rt_pc = "done"

\* C6: whenever download_file returns success=true the returned size is
\* greater than 0 and a file exists at the returned path.
SuccessHasNonEmptyFile ==
    (run = "download" /\ dl_pc = "done" /\ dl_ret.success) =>
        dl_ret.size > 0 /\ fs.exists

\* C7: whenever download_file returns success=false no file written by that
\* call remains at the destination.
FailureLeavesNoFile ==
    (run = "download" /\ dl_pc = "done" /\ ~dl_ret.success /\ wrote) =>
        ~fs.exists

\* C8: a call that finds the destination file present returns success with
\* that file's path and size, sends no request and leaves the file as it was;
\* so a call after a successful call returns the same path and size without a
\* request.
ExistingFileShortCircuit ==
    (run = "download" /\ dl_pc = "done") =>
        /\ at_call.fs.exists =>
            /\ dl_ret = DlResult(TRUE, Absent, at_call.fs.size)
            /\ trace = <<>>
            /\ fs = at_call.fs
            /\ ~wrote
        /\ (calls >= 2 /\ at_call.prev.success) =>
            /\ trace = <<>>
            /\ dl_ret.success
            /\ dl_ret.file_path = at_call.prev.file_path
            /\ dl_ret.size = at_call.prev.size

ExistingFileShortCircuitWitness ==
    /\ dl_pc = "done"
    /\ calls = 2
    /\ at_call.prev.success
    /\ at_call.prev_wrote
    /\ dl_ret.success
    /\ dl_ret.size = MaxFileSize

\* C9: a response declaring a content-length above max_file_size makes
\* download_file return success=false before the destination is opened: no
\* byte is written and no file is created.
DeclaredOversizeRejected ==
    (run = "download" /\ content_length # NoLength
                      /\ content_length > max_file_size) =>
        /\ dl_pc = "done"
        /\ ~dl_ret.success
        /\ ~wrote
        /\ downloaded_size = 0
        /\ ~fs.exists

DeclaredOversizeRejectedWitness ==
    /\ dl_pc = "done"
    /\ content_length = max_file_size + 1
    /\ max_file_size > 0
    /\ ~dl_ret.success
    /\ Len(trace) = 1

\* C10: while streaming, the running count never stays above max_file_size: the
\* call that exceeds it deletes the partial file and returns success=false, so
\* no returned call leaves a file it wrote larger than max_file_size plus one
\* chunk, and none returns success for a body larger than max_file_size.
RunningLimitEnforced ==
    run = "download" =>
        /\ dl_pc = "stream" => downloaded_size <= max_file_size
        /\ downloaded_size > max_file_size =>
            dl_pc = "done" /\ ~dl_ret.success /\ ~fs.exists
        /\ (dl_pc = "done" /\ wrote /\ fs.exists) =>
            fs.size <= max_file_size + ChunkSize
        /\ (dl_pc = "done" /\ wrote /\ dl_ret.success) =>
            dl_ret.size <= max_file_size

RunningLimitEnforcedWitness ==
    /\ dl_pc = "done"
    /\ wrote
    /\ content_length # NoLength
    /\ content_length <= max_file_size
    /\ downloaded_size > max_file_size
    /\ ~dl_ret.success


\* C11: when parse_link returned success with an empty download_urls list,
\* download_video returns success=false without calling
\* _select_best_download_url or download_file, and process_video_link ends
\* with that failure record.
EmptyCandidatesFailBeforeDownload ==
    /\ (run = "download_video" /\ dv_pc = "done" /\ dv_parse.success
            /\ dv_parse.download_urls = <<>>) =>
          /\ ~dv_ret.success
          /\ dv_ret.error # Absent
          /\ ~Has(dv_calls, "_select_best_download_url")
          /\ ~Has(dv_calls, "download_file")
    /\ (run = "workflow" /\ Len(invoked) >= 2
            /\ stage_res["download_video"].error = "no download url") =>
          /\ invoked = SubSeq(StageOrder, 1, 2)
          /\ wf_pc = "done"
          /\ wf_ret = stage_res["download_video"]

EmptyCandidatesFailBeforeDownloadWitness ==
    /\ run = "download_video"
    /\ dv_pc = "done"
    /\ dv_parser = "bilibili"
    /\ dv_parse.success
    /\ dv_parse.download_urls = <<>>
    /\ dv_ret.error = "no download url"

AllPayloadFailures ==
    \A i \in 1..Len(trace) :
        trace[i].ev = "request" => trace[i].outcome \in PayloadMsgs

\* C12: when every request of _call_bilibili_api got a 200 response whose
\* payload code is not 1, exactly max_retries requests were sent, the call
\* returns success=false with the msg of the last payload in its error, and
\* parse_link returns that record unchanged.
ApiFailureAfterMaxRetries ==
    (run = "bilibili" /\ rt_pc \in {"done", "returned"}
        /\ Has(bl_calls, "_call_bilibili_api") /\ AllPayloadFailures) =>
        /\ NumRequests = max_retries
        /\ ~rt_ret.success
        /\ Len(trace) > 0 =>
             rt_ret.error = "bilibili api error: " \o trace[Len(trace)].outcome
        /\ rt_pc = "returned" => bl_ret = rt_ret

ApiFailureAfterMaxRetriesWitness ==
    /\ run = "bilibili"
    /\ rt_pc = "returned"
    /\ max_retries = 3
    /\ NumRequests = 3
    /\ AllPayloadFailures
    /\ trace[1].outcome = "video not found"
    /\ bl_ret.error = "bilibili api error: rate limited"

\* The order of tags the primary link is chosen by, highest priority first
TagPriority ==
    <<"direct_video", "direct_audio", "bilibili", "youtube", "vimeo",
      "douyin", "kuaishou", "unknown">>

TagRank(tag) == CHOOSE r \in 1..Len(TagPriority) : TagPriority[r] = tag

\* C13: the primary link of classify_link is the first link, in extraction
\* order, whose tag is the highest-priority tag present; with a direct_video
\* link and a bilibili link in the text the primary is tagged direct_video.
PrimaryIsFirstOfHighestPriority ==
    (run = "classify_link" /\ cl_ret.success) =>
        /\ \E i \in 1..Len(cl_ret.links) :
            /\ cl_ret.primary_link = cl_ret.links[i]
            /\ \A j \in 1..Len(cl_ret.links) :
                /\ TagRank(cl_ret.links[j].type) >= TagRank(cl_ret.links[i].type)
                /\ j < i =>
                     TagRank(cl_ret.links[j].type) > TagRank(cl_ret.links[i].type)
        /\ ((\E j \in 1..Len(cl_ret.links) : cl_ret.links[j].type = "direct_video")
            /\ (\E j \in 1..Len(cl_ret.links) : cl_ret.links[j].type = "bilibili"))
              => cl_ret.primary_link.type = "direct_video"

PrimaryIsFirstOfHighestPriorityWitness ==
    /\ run = "classify_link"
    /\ cl_ret.success
    /\ Len(cl_ret.links) = 2
    /\ cl_ret.links[1].type = "bilibili"
    /\ cl_ret.links[2].type = "direct_video"
    /\ cl_ret.primary_link = cl_ret.links[2]

\* C14: on a text with no URL-shaped substring classify_link returns
\* success=false with an empty links list and primary_link None and raises
\* nothing; process_video_link then ends with a failure, download_video not
\* invoked.
NoLinkFailsSoftly ==
    /\ (run = "classify_link" /\ cl_text = <<>> /\ cl_ret # NoClassification) =>
          /\ ~cl_ret.success
          /\ cl_ret.links = <<>>
          /\ cl_ret.primary_link = NoLink
          /\ exc["classify_link"] # "escaped"
    /\ (run = "workflow" /\ Len(invoked) >= 1
            /\ stage_res["classify_link"].error = "no link found") =>
          /\ invoked = <<"classify_link">>
          /\ wf_pc = "done"
          /\ ~wf_ret.success

NoLinkFailsSoftlyWitness ==
    /\ run = "classify_link"
    /\ cl_text = <<>>
    /\ cl_ret.error = "no link found"

\* C15: the resolver download_video invokes for a link, called as the workflow
\* calls it (platform = the link's tag), is the one _get_parser_name names for
\* that tag; a link tagged unknown goes to the generic parser.
NamedResolverInvoked ==
    (run = "download_video" /\ dv_pc = "done"
        /\ dv_platform = IdentifyLinkType(dv_url).type) =>
        IF GetParserName(dv_platform) = "direct_downloader"
        THEN dv_calls = <<"download_file">>
        ELSE Len(dv_calls) >= 1 /\ dv_calls[1] = GetParserName(dv_platform)

OtherPlatforms == {"youtube", "vimeo", "douyin", "kuaishou"}

ResolutionFailed ==
    /\ ~dv_ret.success
    /\ dv_ret.error # Absent
    /\ ~dv_parse.success
    /\ dv_parse.download_urls = <<>>
    /\ dv_ret.download_urls = <<>>
    /\ ~Has(dv_calls, "download_file")

\* C16 as stated: for a youtube, vimeo, douyin or kuaishou link, under every
\* configuration, download_video returns success=false with an error, no
\* partial result, and download_file is not invoked.
OtherPlatformsAlwaysFail ==
    (run = "download_video" /\ dv_pc = "done"
        /\ dv_platform = IdentifyLinkType(dv_url).type
        /\ dv_platform \in OtherPlatforms) => ResolutionFailed

\* C16: for a vimeo, douyin or kuaishou link under every configuration, and
\* for a youtube link when yt_dlp is not loaded (USE_YT_DLP is not "true" or
\* the import fails), download_video returns success=false with an error, no
\* partial result, and download_file is not invoked.
OtherPlatformsFailWithoutYtDlp ==
    (run = "download_video" /\ dv_pc = "done"
        /\ dv_platform = IdentifyLinkType(dv_url).type
        /\ dv_platform \in OtherPlatforms
        /\ (dv_platform = "youtube" => ~dv_cfg.yt_dlp)) => ResolutionFailed

OtherPlatformsFailWithoutYtDlpWitness ==
    /\ run = "download_video"
    /\ dv_pc = "done"
    /\ dv_platform = "youtube"
    /\ "youtube" \in dv_url.names
    /\ ~dv_cfg.yt_dlp
    /\ dv_calls = <<"youtube_parser">>
    /\ dv_ret.error = "youtube parsing needs yt-dlp"

GenericParsed ==
    /\ run = "download_video"
    /\ dv_parser = "generic"
    /\ dv_pc \in {"select", "done"}

GenericParserRest ==
    /\ ~Has(dv_calls, "network")
    /\ dv_url.is_direct_link =>
        /\ dv_parse.success
        /\ Len(dv_parse.download_urls) = 1
        /\ dv_parse.download_urls[1].url = dv_url.url
    /\ ~dv_url.is_direct_link =>
        /\ ~dv_parse.success
        /\ dv_parse.download_urls = <<>>
        /\ dv_url.platform # "unknown" =>
             dv_parse.suggested_parser = dv_url.platform \o "_parser"

\* C17 as stated: GenericParser.parse_link sends no request; for a URL ending
\* in a media extension it returns success with one candidate whose url is the
\* input URL and the title equal to the final path segment; otherwise
\* success=false without candidates, naming the parser of a known platform.
GenericParserTitleIsLastSegment ==
    GenericParsed =>
        /\ GenericParserRest
        /\ dv_url.is_direct_link => dv_parse.title = dv_url.segment

\* C17: as above, with the title equal to the final path segment (query
\* string removed), or "unknown_file" when that segment is empty.
GenericParserTitleOrUnknownFile ==
    GenericParsed =>
        /\ GenericParserRest
        /\ dv_url.is_direct_link =>
             dv_parse.title = IF dv_url.segment = "" THEN "unknown_file"
                              ELSE dv_url.segment

GenericParserTitleOrUnknownFileWitness ==
    /\ GenericParsed
    /\ dv_pc = "select"
    /\ dv_url.is_direct_link
    /\ dv_url.segment = ""
    /\ dv_parse.title = "unknown_file"
    /\ dv_parse.download_urls[1].url = "https://example.com/?file=a.mp4"

\* The score of a candidate as the selector is described
DescribedScore(c) ==
    (IF "1080" \in Markers(c.quality) \/ "hd" \in Markers(c.quality) THEN 3
     ELSE IF "720" \in Markers(c.quality) THEN 2
     ELSE IF "480" \in Markers(c.quality) THEN 1 ELSE 0)
    + (IF c.format \in {"mp4", "webm"} THEN 2
       ELSE IF c.format = "direct" THEN 1 ELSE 0)
    + (IF 0 < c.size /\ c.size < 100 * MB THEN 2
       ELSE IF 0 < c.size /\ c.size < 500 * MB THEN 1 ELSE 0)

\* C18: _select_best_download_url gives every candidate the additive score of
\* quality, format and size, and returns the url of a candidate of maximal
\* score; on [720p/mp4/50MB, 1080p/flv/600MB] the scores are 6 and 3 and the
\* first url is returned.
SelectorReturnsMaxScore ==
    (run = "select_best" /\ sel_pc = "done") =>
        /\ sel_scores = [i \in 1..Len(sel_urls) |-> DescribedScore(sel_urls[i])]
        /\ sel_urls # <<>> =>
            \E i \in 1..Len(sel_urls) :
                /\ sel_ret = sel_urls[i].url
                /\ \A j \in 1..Len(sel_urls) :
                     DescribedScore(sel_urls[j]) <= DescribedScore(sel_urls[i])
        /\ (/\ Len(sel_urls) = 2
            /\ sel_urls[1] = Candidate(sel_urls[1].url, "720p", "mp4", 50 * MB)
            /\ sel_urls[2] = Candidate(sel_urls[2].url, "1080p", "flv", 600 * MB)) =>
              /\ sel_scores = <<6, 3>>
              /\ sel_ret = sel_urls[1].url

SelectorReturnsMaxScoreWitness ==
    /\ run = "select_best"
    /\ sel_pc = "done"
    /\ Len(sel_urls) = 2
    /\ sel_urls[1].quality = "720p" /\ sel_urls[1].size = 50 * MB
    /\ sel_urls[2].quality = "1080p" /\ sel_urls[2].format = "flv"
    /\ sel_scores = <<6, 3>>
    /\ sel_ret = sel_urls[1].url

ConcurrentCallsDeduplicated ==
    run = "concurrent" =>
        /\ ~(cc_wrote[1] /\ cc_wrote[2])
        /\ \A p \in Callers :
            (cc_pc[p] = "done" /\ cc_ret[p].success) =>
                /\ cc_fs.exists
                /\ \A q \in Callers \ {p} : cc_pc[q] # "stream"

\* C21: in _call_bilibili_api an HTTP 401 or 400 ends the call on the attempt
\* where it occurs: no sleep and no further request follows it.
BilibiliAuthAndBadRequestNeverRetried ==
    run = "bilibili" =>
        \A i \in 1..Len(trace) :
            trace[i].outcome \in {"401", "400"} =>
                /\ i = Len(trace)
                /\ rt_pc \in {"done", "returned"}
                /\ ~rt_ret.success

\* The sleep that follows the request at position i of the trace, if any
FollowedBySleepOf(i, d) ==
    /\ i < Len(trace)
    /\ trace[i + 1].ev = "sleep"
    /\ trace[i + 1].n = d

\* C22: in _call_gpt_api and _transcribe_with_whisper a 429 on the k-th request,
\* k < max_retries, is followed by a sleep of exactly retry_delay * 2^(k-1).
RateLimitDelayDoubles ==
    run \in {"gpt", "whisper"} =>
        \A i \in 1..Len(trace) :
            (trace[i].outcome = "429" /\ trace[i].n < max_retries) =>
                FollowedBySleepOf(i, retry_delay * Pow(2, trace[i].n - 1))

RateLimitDelayDoublesWitness ==
    /\ run = "whisper"
    /\ retry_delay = 2
    /\ Len(trace) >= 4
    /\ trace[1].outcome = "429" /\ trace[2] = Sleep(2)
    /\ trace[3].outcome = "429" /\ trace[3].n = 2 /\ trace[4] = Sleep(4)

\* C23: in _call_gpt_api a 502 on the k-th request, k < max_retries, is followed
\* by a sleep of retry_delay * gpt_502_retry_multiplier^(k-1) + gpt_502_base_delay,
\* and a 503 by the same expression over the 503 multiplier and floor.
GatewayDelaysUseOwnConstants ==
    run = "gpt" =>
        \A i \in 1..Len(trace) :
            /\ (trace[i].outcome = "502" /\ trace[i].n < max_retries) =>
                 FollowedBySleepOf(i,
                    retry_delay * Pow(gpt_502_retry_multiplier, trace[i].n - 1)
                        + gpt_502_base_delay)
            /\ (trace[i].outcome = "503" /\ trace[i].n < max_retries) =>
                 FollowedBySleepOf(i,
                    retry_delay * Pow(gpt_503_retry_multiplier, trace[i].n - 1)
                        + gpt_503_base_delay)

GatewayDelaysUseOwnConstantsWitness ==
    /\ run = "gpt"
    /\ retry_delay = 2
    /\ Len(trace) >= 4
    /\ trace[1].outcome = "503" /\ trace[2] = Sleep(12)
    /\ trace[3].outcome = "502" /\ trace[3].n = 2 /\ trace[4] = Sleep(11)

\* C24: _transcribe_with_whisper follows the error-class table of _call_gpt_api:
\* given the same max_retries and retry_delay, each outcome is retried or
\* returned as _call_gpt_api would, and each sleep lasts what _call_gpt_api
\* would sleep for that outcome on that attempt.
WhisperFollowsGptTable ==
    run = "whisper" =>
        \A i \in 1..Len(trace) :
            trace[i].ev = "request" =>
                IF GptRetryable(trace[i].outcome) /\ trace[i].n < max_retries
                THEN FollowedBySleepOf(i,
                        GptDelay(trace[i].outcome, trace[i].n - 1, retry_delay))
                ELSE i = Len(trace)

\* The outcomes both loops retry with the unscaled retry_delay
FlatRetried == {"timeout", "request_exception", "404", "500"}

\* C25: in _call_gpt_api and _transcribe_with_whisper a timeout, a request
\* error, a 404 or another unlisted status on the k-th request is followed by
\* a sleep of retry_delay, whatever k is, when k < max_retries, and ends the
\* call when k = max_retries.
FlatDelayForOtherErrors ==
    run \in {"gpt", "whisper"} =>
        \A i \in 1..Len(trace) :
            trace[i].outcome \in FlatRetried =>
                IF trace[i].n < max_retries
                THEN FollowedBySleepOf(i, retry_delay)
                ELSE i = Len(trace) /\ rt_pc = "done" /\ ~rt_ret.success

FlatDelayForOtherErrorsWitness ==
    /\ run = "whisper"
    /\ retry_delay = 2
    /\ max_retries = 3
    /\ rt_pc = "done"
    /\ Len(trace) = 5
    /\ trace[1].outcome = "timeout" /\ trace[2] = Sleep(2)
    /\ trace[3].outcome = "404" /\ trace[4] = Sleep(2)
    /\ trace[5].outcome = "request_exception"

RetryLoop == run \in {"gpt", "whisper", "bilibili", "download"}

\* The delay the loop of this run computes for the failed request `req`; in
\* download_file a request recorded as "ok" failed while its body was streamed.
DelayAfter(req) ==
    CASE run \in {"gpt", "whisper"} -> Delay(req.outcome, req.n - 1, retry_delay)
      [] run = "bilibili" -> retry_delay
      [] OTHER -> IF req.outcome = "ok" THEN dl_retry_delay ELSE DlDelay(req.outcome)

FailureReturned ==
    IF run = "download" THEN dl_pc = "done" /\ ~dl_ret.success
    ELSE rt_pc \in {"done", "returned"} /\ ~rt_ret.success

\* C26: in every retry loop the first request is attempt 1, each later request
\* follows exactly one sleep, of the delay computed for the failed request
\* before it, and carries that request's attempt number plus one; every sleep
\* follows a request, and no sleep follows the request whose failure is returned.
OneSleepBetweenRequests ==
    RetryLoop =>
        /\ \A i \in 1..Len(trace) :
            /\ (trace[i].ev = "request" /\ i = 1) => trace[i].n = 1
            /\ (trace[i].ev = "request" /\ i > 1) =>
                 /\ i > 2
                 /\ trace[i - 1].ev = "sleep"
                 /\ trace[i - 2].ev = "request"
                 /\ trace[i - 1].n = DelayAfter(trace[i - 2])
                 /\ trace[i].n = trace[i - 2].n + 1
            /\ trace[i].ev = "sleep" => (i > 1 /\ trace[i - 1].ev = "request")
        /\ (FailureReturned /\ Len(trace) > 0) => trace[Len(trace)].ev = "request"

OneSleepBetweenRequestsWitness ==
    /\ run = "download"
    /\ FailureReturned
    /\ Len(trace) = 5
    /\ trace[1] = Request(1, "403") /\ trace[2] = Sleep(2)
    /\ trace[3] = Request(2, "429") /\ trace[4] = Sleep(4)
    /\ trace[5] = Request(3, "timeout")

\* C27: in _call_bilibili_api the sleep after a failed request depends on the
\* class of the failure: after a rate-limited answer on the k-th request it
\* lasts retry_delay * 2^(k-1).
BilibiliDelayFollowsErrorClass ==
    run = "bilibili" =>
        \A i \in 1..Len(trace) :
            (trace[i].outcome \in {"429", "rate limited"} /\ i < Len(trace)) =>
                FollowedBySleepOf(i, retry_delay * Pow(2, trace[i].n - 1))

\* Whether call `a` comes before call `b` in a call log
Precedes(calls_made, a, b) ==
    \E i, j \in 1..Len(calls_made) :
        i < j /\ calls_made[i] = a /\ calls_made[j] = b

\* C28: BilibiliParser.parse_link calls _call_bilibili_api, and sends a request
\* to the resolution API, only after validate_url accepted the url (it matches
\* one of the bilibili patterns of the classifier) and a video id was obtained;
\* for a b23.tv url the redirect lookup comes before the API call; the API is
\* never called when the url does not match or no id was obtained.
ApiOnlyAfterValidationAndId ==
    run = "bilibili" =>
        /\ NumRequests > 0 => Has(bl_calls, "_call_bilibili_api")
        /\ Has(bl_calls, "_call_bilibili_api") =>
             /\ bl_url.bilibili # Absent
             /\ bl_video_id # Absent
             /\ Precedes(bl_calls, "validate_url", "_call_bilibili_api")
             /\ Precedes(bl_calls, "_extract_video_id", "_call_bilibili_api")
             /\ IsShortLink(bl_url) =>
                  Precedes(bl_calls, "_resolve_short_url", "_call_bilibili_api")
        /\ (bl_calls # <<>> /\ (bl_url.bilibili = Absent \/ bl_video_id = Absent)) =>
             /\ ~Has(bl_calls, "_call_bilibili_api")
             /\ trace = <<>>
             /\ rt_pc = "returned"
             /\ ~bl_ret.success

ApiOnlyAfterValidationAndIdWitness ==
    /\ run = "bilibili"
    /\ bl_url.url = "https://b23.tv/abc123"
    /\ bl_calls = <<"validate_url", "_extract_video_id", "_resolve_short_url",
                    "_call_bilibili_api">>
    /\ NumRequests >= 1
    /\ rt_pc = "returned"

\* C29: in download_file a 403 on a request that is not the last permitted one
\* is followed by a sleep and a retry, and the headers of every request differ
\* from those of every earlier request of the call: the first request carries
\* the default headers, each later one a User-Agent no earlier request used, and
\* for a bilivideo.com url a Referer/Origin pair other than the default one.
RetryHeadersDiffer ==
    run = "download" =>
        /\ Len(dl_headers) = NumRequests
        /\ \A i \in 1..Len(trace) :
            (trace[i].outcome = "403" /\ trace[i].n < dl_max_retries) =>
                FollowedBySleepOf(i, dl_retry_delay)
        /\ Len(dl_headers) >= 1 =>
             /\ dl_headers[1].user_agent = "Windows NT 10.0 Chrome/91"
             /\ dl_url.bilivideo =>
                  /\ dl_headers[1].referer = "https://www.bilibili.com/"
                  /\ dl_headers[1].origin = "https://www.bilibili.com"
        /\ \A i, j \in 1..Len(dl_headers) :
            i < j =>
                /\ dl_headers[i] # dl_headers[j]
                /\ dl_headers[i].user_agent # dl_headers[j].user_agent
        /\ \A j \in 2..Len(dl_headers) :
            dl_url.bilivideo =>
                <<dl_headers[j].referer, dl_headers[j].origin>>
                    # <<dl_headers[1].referer, dl_headers[1].origin>>

RetryHeadersDifferWitness ==
    /\ run = "download"
    /\ dl_url.bilivideo
    /\ Len(dl_headers) = 3
    /\ Len(trace) = 5
    /\ trace[1].outcome = "403" /\ trace[3].outcome = "403"
    /\ dl_headers[2].referer = "https://www.bilibili.com/video/"
    /\ dl_headers[3].origin = Absent

\* The sleeps of the trace that follow a request of one of `outcomes`
SleepsAfter(outcomes) ==
    { trace[i + 1].n : i \in { k \in 1..(Len(trace) - 1) :
                                 /\ trace[k].ev = "request"
                                 /\ trace[k].outcome \in outcomes
                                 /\ trace[k + 1].ev = "sleep" } }

\* C30: in download_file a 429 on a request that is not the last permitted one
\* is followed by a sleep of retry_delay * 2, whatever the attempt number, and
\* that sleep is strictly longer than every sleep after a 403, a timeout or a
\* connection error, which last retry_delay.
RateLimitedDownloadWaitsLonger ==
    run = "download" =>
        /\ \A i \in 1..Len(trace) :
            (trace[i].outcome = "429" /\ trace[i].n < dl_max_retries) =>
                FollowedBySleepOf(i, dl_retry_delay * 2)
        /\ SleepsAfter({"403", "timeout", "connection_error", "ok"})
                \subseteq {dl_retry_delay}
        /\ \A long \in SleepsAfter({"429"}) :
            \A short \in SleepsAfter({"403", "timeout", "connection_error"}) :
                long > short

RateLimitedDownloadWaitsLongerWitness ==
    /\ run = "download"
    /\ Len(trace) = 5
    /\ trace[1].outcome = "403" /\ trace[2] = Sleep(2)
    /\ trace[3].outcome = "429" /\ trace[3].n = 2 /\ trace[4] = Sleep(4)
    /\ trace[5].outcome = "429"
    /\ dl_pc = "done"

\* C31: in download_file a 404 ends the call with success=false on the attempt
\* where it occurs, whatever attempts remain: it is the last event of the call.
NotFoundIsTerminal ==
    run = "download" =>
        \A i \in 1..Len(trace) :
            trace[i].outcome = "404" =>
                /\ i = Len(trace)
                /\ dl_pc = "done"
                /\ ~dl_ret.success
                /\ dl_ret.error = "404"

NotFoundIsTerminalWitness ==
    /\ run = "download"
    /\ dl_pc = "done"
    /\ trace = <<Request(1, "404")>>
    /\ ~dl_ret.success

\* C32: when the body has been streamed to its end with no byte written,
\* download_file removes the destination file and returns success=false.
ZeroByteStreamDeleted ==
    [][(/\ run = "download"
        /\ dl_pc = "stream"
        /\ dl_pc' = "done"
        /\ downloaded_size' = 0
        /\ dl_ret'.error \notin StreamErrors)
            => (fs' = NoFile /\ ~dl_ret'.success)]_vars

ZeroByteStreamDeletedWitness ==
    /\ run = "download"
    /\ dl_pc = "done"
    /\ wrote
    /\ downloaded_size = 0
    /\ dl_ret.error = "downloaded file is empty"
    /\ fs = NoFile

\* C37: in download_file an HTTP error status other than 403 and 429 ends the
\* call with success=false on the attempt where it occurs, the first included.
OtherHttpErrorsAreTerminal ==
    run = "download" =>
        \A i \in 1..Len(trace) :
            trace[i].outcome \in {"500", "502", "503", "404"} =>
                /\ i = Len(trace)
                /\ dl_pc = "done"
                /\ ~dl_ret.success

OtherHttpErrorsAreTerminalWitness ==
    /\ run = "download"
    /\ dl_pc = "done"
    /\ trace = <<Request(1, "502")>>
    /\ ~dl_ret.success

\* The order in which the pattern groups are said to be tested
TestedOrder ==
    <<"bilibili", "youtube", "vimeo", "douyin", "kuaishou",
      "direct_video", "direct_audio">>

\* C33: every classified link carries the tag of the first group, in the order
\* bilibili, youtube, vimeo, douyin, kuaishou, direct_video, direct_audio, that
\* has a matching pattern, even when a later group matches too, with the
\* capture of that match as platform_id; a url matching no group is tagged
\* unknown with no platform_id.
FirstMatchingGroupWins ==
    (run = "classify_link" /\ cl_ret.success) =>
        /\ Len(cl_ret.links) = Len(cl_text)
        /\ \A i \in 1..Len(cl_ret.links) :
            LET u == cl_text[i]
                l == cl_ret.links[i]
            IN  /\ l.url = u.url
                /\ \A g \in 1..Len(TestedOrder) :
                    (/\ GroupMatch(u, TestedOrder[g]) # Absent
                     /\ \A h \in 1..(g - 1) : GroupMatch(u, TestedOrder[h]) = Absent)
                        => /\ l.type = TestedOrder[g]
                           /\ l.platform_id = GroupMatch(u, TestedOrder[g])
                /\ (\A g \in 1..Len(TestedOrder) : GroupMatch(u, TestedOrder[g]) = Absent)
                        => (l.type = "unknown" /\ l.platform_id = Absent)
                /\ u.url = "https://www.bilibili.com/video/BV1xx411c7mD"
                        => (l.type = "bilibili" /\ l.platform_id = "BV1xx411c7mD")

FirstMatchingGroupWinsWitness ==
    /\ run = "classify_link"
    /\ cl_ret.success
    /\ Len(cl_ret.links) = 2
    /\ cl_text[1].url = "https://www.bilibili.com/video/BV1.mp4"
    /\ cl_text[1].direct_video = "mp4"
    /\ cl_ret.links[1].type = "bilibili"
    /\ cl_ret.links[1].platform_id = "BV1"
    /\ cl_ret.links[2].type = "unknown"

\* The positions of `download_urls` whose candidate has the highest score
TopScored(download_urls) ==
    { i \in 1..Len(download_urls) :
        \A j \in 1..Len(download_urls) :
            DescribedScore(download_urls[j]) <= DescribedScore(download_urls[i]) }

\* C34: _select_best_download_url returns the url of the earliest candidate
\* with the highest score: the first candidate when it ties for the highest
\* score, and the first candidate when every candidate scores 0; the returned
\* url is thus determined by the candidate list.
TiesGoToEarliest ==
    (run = "select_best" /\ sel_pc = "done" /\ sel_urls # <<>>) =>
        /\ sel_ret = sel_urls[Min(TopScored(sel_urls))].url
        /\ 1 \in TopScored(sel_urls) => sel_ret = sel_urls[1].url
        /\ (\A i \in 1..Len(sel_urls) : DescribedScore(sel_urls[i]) = 0)
                => sel_ret = sel_urls[1].url

TiesGoToEarliestWitness ==
    /\ run = "select_best"
    /\ sel_pc = "done"
    /\ Len(sel_urls) = 2
    /\ DescribedScore(sel_urls[1]) = DescribedScore(sel_urls[2])
    /\ sel_urls[1].url # sel_urls[2].url
    /\ sel_ret = sel_urls[1].url

\* C35: download_file returns success=true only if the destination file existed
\* when the call began or the call streamed a response body to its end (its
\* last event is the request whose body was written, with no retry after it).
SuccessMeansExistingOrComplete ==
    (run = "download" /\ dl_pc = "done" /\ dl_ret.success) =>
        \/ at_call.fs.exists
        \/ /\ Len(trace) > 0
           /\ trace[Len(trace)].ev = "request"
           /\ trace[Len(trace)].outcome = "ok"

\* The stages whose failure ends process_video_link
GatingStages ==
    {"classify_link", "download_video", "extract_audio_from_video",
     "transcribe_audio"}

TimesInvoked(stage) ==
    Cardinality({ i \in 1..Len(invoked) : invoked[i] = stage })

\* C36: process_video_link returns success=true exactly when classify_link,
\* download_video, extract_audio_from_video and transcribe_audio were each
\* invoked once and each returned success; then the returned transcript is the
\* one transcribe_audio returned, whatever process_text returned and whether
\* or not saving raised.
SuccessIffFourStagesSucceeded ==
    (run = "workflow" /\ wf_pc = "done") =>
        /\ wf_ret.success <=>
              \A s \in GatingStages :
                  TimesInvoked(s) = 1 /\ stage_res[s].success
        /\ wf_ret.success =>
              /\ wf_ret.transcript = stage_res["transcribe_audio"].transcript
              /\ TimesInvoked("process_text") = 1
              /\ TimesInvoked("_save_transcription_result") = 1

SuccessIffFourStagesSucceededWitness ==
    /\ run = "workflow"
    /\ wf_pc = "done"
    /\ wf_ret.success
    /\ ~stage_res["process_text"].success
    /\ wf_ret.result_file = Absent
    /\ wf_ret.transcript = "raw transcript"

\* C40: a 200 of the transcription service gives success only with a non-empty
\* transcript; an empty transcription, in a body with segments or with text
\* only, is retried after retry_delay while attempts remain and returned as
\* success=false on the last attempt.
EmptyTranscriptNeverSuccess ==
    run = "whisper" =>
        /\ (rt_pc = "done" /\ rt_ret.success) => rt_ret.payload # ""
        /\ \A i \in 1..Len(trace) :
            trace[i].outcome \in {"empty", "empty_segments"} =>
                IF trace[i].n < max_retries
                THEN FollowedBySleepOf(i, retry_delay)
                ELSE i = Len(trace) /\ rt_pc = "done" /\ ~rt_ret.success

\* C39: when the video file exists and ffmpeg fails (non-zero exit, timeout,
\* not installed), extract_audio_from_video leaves a non-empty placeholder at
\* audio_path and returns success=true; it returns success=false only when
\* the video file is missing, when ffmpeg reported success without leaving a
\* non-empty audio file, or when an exception was caught.
FfmpegFailureGivesPlaceholder ==
    (run = "extract_audio" /\ ea_pc = "done") =>
        /\ (ea_video /\ ea_ffmpeg \in {"nonzero", "timeout", "not_installed"}) =>
              /\ ea_ret.success
              /\ ea_audio.exists /\ ea_audio.size > 0
        /\ ~ea_ret.success =>
              \/ ~ea_video
              \/ ea_ffmpeg = "ok" /\ ~(ea_audio.exists /\ ea_audio.size > 0)
              \/ exc["extract_audio_from_video"] = "caught"

\* C39 (amended): when the video file exists, no audio file is there yet and
\* ffmpeg fails, extract_audio_from_video calls _create_mock_audio_file and
\* returns success=true; the non-empty placeholder is at audio_path when the
\* write went through, and success=true is returned also when it did not.
\* success=false is returned only for a missing video, for ffmpeg reporting
\* success without a non-empty audio file, or from the except clause.
FfmpegFailureNeverStops ==
    (run = "extract_audio" /\ ea_pc = "done") =>
        /\ (ea_video /\ ea_ffmpeg \notin {"ok", "not_run"}) =>
              /\ ea_ret.success
              /\ ea_mock # "not_called"
              /\ ea_mock = "written" => ea_audio = File(1)
        /\ ea_ffmpeg \in {"ok", "not_run"} => ea_mock = "not_called"
        /\ ~ea_ret.success =>
              \/ ~ea_video
              \/ ea_ffmpeg = "ok" /\ ~(ea_audio.exists /\ ea_audio.size > 0)
              \/ exc["extract_audio_from_video"] = "caught"

FfmpegFailureNeverStopsWitness ==
    /\ run = "extract_audio"
    /\ ea_pc = "done"
    /\ ea_video
    /\ ea_ffmpeg = "not_installed"
    /\ ea_mock = "written"
    /\ ea_audio = File(1)
    /\ ea_ret.success

\* A call of a retry loop, or a run of process_video_link, that has not returned
Pending ==
    \/ run \in {"gpt", "whisper", "bilibili"} /\ rt_pc = "loop"
    \/ run = "download" /\ dl_pc \in {"loop", "stream"}
    \/ run = "workflow" /\ wf_pc # "done"

\* The call has returned, with a result record
ReturnedRecord ==
    \/ run \in {"gpt", "whisper"} /\ rt_pc = "done" /\ rt_ret # NoResult
    \/ /\ run = "bilibili"
       /\ rt_pc \in {"done", "returned"}
       /\ Has(bl_calls, "_call_bilibili_api") => rt_ret # NoResult
    \/ run = "download" /\ dl_pc = "done" /\ dl_ret # NoDlResult
    \/ run = "workflow" /\ wf_pc = "done" /\ wf_ret # NoResult

\* C38: every call of _call_gpt_api, _transcribe_with_whisper,
\* _call_bilibili_api and download_file, and every run of process_video_link,
\* eventually returns a result record, whatever the outcomes of its attempts,
\* as long as each request and each sleep returns.
EveryCallReturns == Pending ~> ReturnedRecord

EveryCallReturnsWitness ==
    /\ run = "gpt"
    /\ rt_pc = "done"
    /\ max_retries = MaxRetries
    /\ NumRequests = MaxRetries
    /\ ~rt_ret.success
    /\ rt_ret.error = "503"

=============================================================================
